---- MODULE Spec2Model ----
(***************************************************************************)
(* Sale Transaction Engine of the POS back end: create, void and refund    *)
(* of a sale (sale.service.ts) as transactions against the PostgreSQL      *)
(* tables products, customers, sales, sale_items, sale_discounts,          *)
(* stock_movements and loyalty_points_history.                             *)
(*                                                                         *)
(* Each request handler runs on its own pooled connection between BEGIN    *)
(* and COMMIT/ROLLBACK.  The pool is created without any isolation option, *)
(* so the transactions run at PostgreSQL's default READ COMMITTED level:   *)
(*   - a SELECT sees the rows committed when the statement starts, plus    *)
(*     the transaction's own uncommitted writes; it takes no lock;         *)
(*   - an UPDATE takes the row's lock and keeps it until COMMIT/ROLLBACK;  *)
(*     an UPDATE of a row locked by another transaction waits, then acts   *)
(*     on the row as that transaction left it;                             *)
(*   - rows INSERTed and values UPDATEd are invisible to other             *)
(*     transactions until COMMIT, and vanish on ROLLBACK.                  *)
(* One action of the model is one statement group of a handler; a worker's *)
(* uncommitted writes are held in its transaction record tx[w] and reach   *)
(* the tables in the step that commits.                                    *)
(*                                                                         *)
(* Money is counted in minor units (centavos); a DECIMAL(15,2) column      *)
(* holds a whole number of them.  Values the handler computes in floating  *)
(* point before they are stored (tax, totals) are carried exactly, in      *)
(* hundredths of a minor unit, and rounded where the column stores them.   *)
(***************************************************************************)
EXTENDS Integers, Sequences, FiniteSets, TLC

(***************************************************************************)
(* Bounds of the model.                                                    *)
(***************************************************************************)
MaxSales == 2
MaxQty == 2

\* Two request-handling workers, each with its own pooled connection.
Workers == {1, 2}

NULL == "null"

(***************************************************************************)
(* Catalog, customers and users: the rows the engine reads but never       *)
(* creates.  The non-stock columns are not written by any sale operation.  *)
(***************************************************************************)
ProductIds == {"p1", "p2", "p3"}

\* products rows.  p1: stock-tracked, no backorder, VAT 12%.  p2: not
\* stock-tracked, not taxable.  p3: stock-tracked, backorder allowed, a price
\* whose 12% tax is not a whole minor unit.
Catalog ==
  [p \in ProductIds |->
     CASE p = "p1" -> [id |-> p, selling_price |-> 10000, track_inventory |-> TRUE,
                       allow_backorder |-> FALSE, is_taxable |-> TRUE,
                       tax_rate |-> 12, current_stock |-> 2]
       [] p = "p2" -> [id |-> p, selling_price |-> 2000, track_inventory |-> FALSE,
                       allow_backorder |-> FALSE, is_taxable |-> FALSE,
                       tax_rate |-> 12, current_stock |-> 5]
       [] p = "p3" -> [id |-> p, selling_price |-> 55, track_inventory |-> TRUE,
                       allow_backorder |-> TRUE, is_taxable |-> TRUE,
                       tax_rate |-> 12, current_stock |-> 1]]

CustomerIds == {"c1"}

\* customers rows as seeded: loyalty balance, lifetime spend, transaction
\* count, and the points multiplier of the customer's tier in hundredths
\* (membership_tiers.points_multiplier is DECIMAL(3,2)).
CustomerSeed ==
  [c \in CustomerIds |->
     [loyalty_points |-> 1, lifetime_spend |-> 0, total_transactions |-> 0,
      points_multiplier |-> 150]]

\* users rows read by the supervisor check of voidSale / refundSale.
UserIds == {"u1", "s1", "s2", "s3", "s4"}

\* The columns of the users table that the sale operations name.
UsersColumns ==
  {"role", "status", "supervisor_pin", "can_authorize_void", "can_authorize_refund"}

\* u1: a cashier.  s1: a manager with a PIN and both capabilities.  s2: a
\* cashier with a PIN and no capability.  s3: a supervisor with a PIN and
\* both capabilities whose account is suspended.  s4: a supervisor with a
\* PIN who may authorize voids but not refunds.  A PIN hash is written as
\* the PIN it is the hash of.
Users ==
  [u \in UserIds |->
     CASE u = "u1" -> [role |-> "cashier", status |-> "active", supervisor_pin |-> NULL,
                       can_authorize_void |-> FALSE, can_authorize_refund |-> FALSE]
       [] u = "s1" -> [role |-> "manager", status |-> "active", supervisor_pin |-> "pin1",
                       can_authorize_void |-> TRUE, can_authorize_refund |-> TRUE]
       [] u = "s2" -> [role |-> "cashier", status |-> "active", supervisor_pin |-> "pin2",
                       can_authorize_void |-> FALSE, can_authorize_refund |-> FALSE]
       [] u = "s3" -> [role |-> "supervisor", status |-> "suspended",
                       supervisor_pin |-> "pin3",
                       can_authorize_void |-> TRUE, can_authorize_refund |-> TRUE]
       [] u = "s4" -> [role |-> "supervisor", status |-> "active",
                       supervisor_pin |-> "pin4",
                       can_authorize_void |-> TRUE, can_authorize_refund |-> FALSE]]

\* The cashier whose session issues the create-sale requests.
Cashier == "u1"

(***************************************************************************)
(* Arithmetic helpers.                                                     *)
(***************************************************************************)
MaxOf(S) == IF S = {} THEN 0 ELSE CHOOSE m \in S : \A n \in S : n <= m

\* The sum of a sequence of numbers.
RECURSIVE SumSeq(_)
SumSeq(s) == IF s = <<>> THEN 0 ELSE Head(s) + SumSeq(Tail(s))

\* A value in hundredths of a minor unit as a DECIMAL(15,2) column stores it:
\* PostgreSQL rounds numeric half away from zero.
Numeric2(x100) ==
  IF x100 >= 0 THEN (x100 + 50) \div 100 ELSE -((50 - x100) \div 100)

(***************************************************************************)
(* Requests.                                                               *)
(***************************************************************************)
MissingProduct == "px"

\* One cart line of CreateSaleData.items; unitPrice 0 stands for an absent
\* unitPrice (the handler falls back to the product's selling price),
\* discountAmount 0 for an absent line discount.
Line(p, q, d) == [productId |-> p, quantity |-> q, unitPrice |-> 0, discountAmount |-> d]

\* CreateSaleData.  customerId NULL = no customer; discountAmount 0 = none;
\* vatExemptReason NULL = none; pointsToRedeem 0 = none.
SaleData(items, c, d, exempt, reason, pts) ==
  [items |-> items, customerId |-> c, discountAmount |-> d, isVatExempt |-> exempt,
   vatExemptReason |-> reason, pointsToRedeem |-> pts]

NoData == SaleData(<<>>, NULL, 0, FALSE, NULL, 0)

\* The body and session of a void / refund request.
VoidData(kind, saleId, userId, reason, supervisorId, supervisorPin) ==
  [kind |-> kind, saleId |-> saleId, userId |-> userId, reason |-> reason,
   supervisorId |-> supervisorId, supervisorPin |-> supervisorPin]

NoVoidData == VoidData("void", 0, NULL, NULL, NULL, NULL)

(***************************************************************************)
(* create: the per-line computation (sale.service.ts, the item loop).      *)
(***************************************************************************)
\* "Check stock": the line is refused for insufficient stock.
InsufficientStock(product, quantity) ==
  product.track_inventory /\ product.current_stock < quantity

\* item.unitPrice || parseFloat(product.selling_price)
UnitPrice(item, product) ==
  IF item.unitPrice # 0 THEN item.unitPrice ELSE product.selling_price

\* The line's tax whether or not the sale is VAT-exempt.
ItemTaxOfExempt(product, isVatExempt, itemSubtotal, itemDiscount) ==
  IF product.is_taxable
    THEN (itemSubtotal - itemDiscount) * product.tax_rate
    ELSE 0

\* The line's tax in hundredths of a minor unit:
\* (itemSubtotal - itemDiscount) * (tax_rate / 100), or 0.
ItemTax(product, isVatExempt, itemSubtotal, itemDiscount) ==
  IF product.is_taxable /\ ~isVatExempt
    THEN (itemSubtotal - itemDiscount) * product.tax_rate
    ELSE 0

\* The entry pushed on itemsData for one line.  taxAmount and totalPrice are
\* in hundredths of a minor unit, the other amounts in minor units.
ItemData(item, product, isVatExempt) ==
  LET unitPrice == UnitPrice(item, product)
      itemSubtotal == unitPrice * item.quantity
      itemDiscount == item.discountAmount
      itemTax == ItemTax(product, isVatExempt, itemSubtotal, itemDiscount)
  IN  [productId |-> product.id, quantity |-> item.quantity, unitPrice |-> unitPrice,
       discountAmount |-> itemDiscount, isVatExempt |-> isVatExempt,
       taxAmount |-> itemTax, subtotal |-> itemSubtotal,
       totalPrice |-> (itemSubtotal - itemDiscount) * 100 + itemTax]

\* SaleMovement with the quantity written unsigned.
SaleMovementUnsigned(product, quantity) ==
  [product_id |-> product.id, movement_type |-> "sale", quantity |-> quantity,
   quantity_before |-> product.current_stock,
   quantity_after |-> product.current_stock - quantity,
   reference_type |-> "sale", reference_id |-> 0]

\* The stock_movements row of a deducted line.  quantity_before is the stock
\* the earlier SELECT returned; reference_id is not set by create.
SaleMovement(product, quantity) ==
  [product_id |-> product.id, movement_type |-> "sale", quantity |-> -quantity,
   quantity_before |-> product.current_stock,
   quantity_after |-> product.current_stock - quantity,
   reference_type |-> "sale", reference_id |-> 0]

(***************************************************************************)
(* create: totals, loyalty points and the rows written after the loop.     *)
(***************************************************************************)
\* The total without the tax.
TotalAmountUntaxed(subtotal, totalDiscount, totalTax) ==
  (subtotal - totalDiscount) * 100

\* totalAmount = subtotal - totalDiscount + totalTax, in hundredths of a minor
\* unit (subtotal and the sale-level discount are in minor units).
TotalAmount(subtotal, totalDiscount, totalTax) ==
  (subtotal - totalDiscount) * 100 + totalTax

\* Math.floor((totalAmount / 100) * multiplier): one point per 100 currency
\* units.  totalAmount is in hundredths of a minor unit and the multiplier in
\* hundredths, so the quotient is over 100 * 100 * 100 * 100.
PointsEarned(totalAmount, multiplier) ==
  (totalAmount * multiplier) \div 100000000

\* The points check refuses the request.
InsufficientPoints(pointsRedeemed, availablePoints) ==
  pointsRedeemed > 0 /\ pointsRedeemed > availablePoints

\* pointsValue, in currency units: 1 point = 1 peso, taken only when a
\* customer row was found and points are redeemed.
PointsValue(customerFound, pointsRedeemed) ==
  IF customerFound /\ pointsRedeemed > 0 THEN pointsRedeemed ELSE 0

\* The total stored without the points value taken off.
PaidAmountUnreduced(totalAmount, pointsValue) == totalAmount

\* The total_amount parameter of INSERT INTO sales: totalAmount - pointsValue,
\* in hundredths of a minor unit.
PaidAmount(totalAmount, pointsValue) == totalAmount - pointsValue * 10000

\* The sales row of INSERT INTO sales.  id is the row's place in sales, given
\* when the row is committed; status and the audit columns take their column
\* defaults.
SaleRow(data, subtotal, totalTax, customerFound, pointsEarned, invoice) ==
  LET totalDiscount == data.discountAmount
      totalAmount == TotalAmount(subtotal, totalDiscount, totalTax)
      pointsRedeemed == data.pointsToRedeem
      pointsValue == PointsValue(customerFound, pointsRedeemed)
  IN  [invoice_number |-> invoice, customer_id |-> data.customerId,
       user_id |-> Cashier, subtotal |-> subtotal,
       discount_amount |-> totalDiscount, tax_amount |-> Numeric2(totalTax),
       total_amount |-> Numeric2(PaidAmount(totalAmount, pointsValue)),
       is_vat_exempt |-> data.isVatExempt, vat_exempt_reason |-> data.vatExemptReason,
       points_earned |-> pointsEarned, points_redeemed |-> pointsRedeemed,
       points_value_redeemed |-> pointsValue * 100,
       status |-> "completed",
       voided_by |-> NULL, void_authorized_by |-> NULL, void_reason |-> NULL,
       refunded_by |-> NULL, refund_authorized_by |-> NULL, refund_reason |-> NULL,
       refund_amount |-> 0]

\* The sale_items row of one itemsData entry.
SaleItemRow(saleId, item) ==
  [sale_id |-> saleId, product_id |-> item.productId, quantity |-> item.quantity,
   unit_price |-> item.unitPrice, discount_amount |-> item.discountAmount,
   is_vat_exempt |-> item.isVatExempt, tax_amount |-> Numeric2(item.taxAmount),
   subtotal |-> item.subtotal, total_price |-> Numeric2(item.totalPrice)]

\* "Record discount for government-mandated": the sale_discounts rows of a
\* sale, written only for a VAT-exempt sale that names its reason.
SaleDiscountRows(saleId, data) ==
  IF data.isVatExempt /\ data.vatExemptReason # NULL
    THEN <<[sale_id |-> saleId, discount_type |-> data.vatExemptReason,
            discount_amount |-> data.discountAmount,
            is_government_mandated |-> TRUE]>>
    ELSE <<>>

\* UPDATE customers of create: the customer's row after it.  lifetime_spend
\* takes totalAmount (before the points value is taken off).
CustomerAfterSale(customer, pointsEarned, pointsRedeemed, totalAmount) ==
  [customer EXCEPT
     !.loyalty_points = @ + pointsEarned - pointsRedeemed,
     !.lifetime_spend = Numeric2(@ * 100 + totalAmount),
     !.total_transactions = @ + 1]

\* "Record points history": the earn and redeem rows, each with the balance
\* the customers row holds after the UPDATE.
PointsHistoryRows(customerId, saleId, pointsEarned, pointsRedeemed, balance) ==
  (IF pointsEarned > 0
     THEN <<[customer_id |-> customerId, transaction_type |-> "earn",
             points |-> pointsEarned, balance_after |-> balance,
             reference_id |-> saleId]>>
     ELSE <<>>)
  \o
  (IF pointsRedeemed > 0
     THEN <<[customer_id |-> customerId, transaction_type |-> "redeem",
             points |-> -pointsRedeemed, balance_after |-> balance,
             reference_id |-> saleId]>>
     ELSE <<>>)

(***************************************************************************)
(* Responses.  An error carries its class and the parts of its message.    *)
(***************************************************************************)
NoResult == [ok |-> FALSE, error |-> "none", message |-> <<>>]
Ok == [ok |-> TRUE, error |-> "none", message |-> <<>>]
OkSale(saleId) == [ok |-> TRUE, error |-> "none", message |-> <<saleId>>]
Err(class, message) == [ok |-> FALSE, error |-> class, message |-> message]

IsError(result) == ~result.ok /\ result.error # "none"

(***************************************************************************)
(* void / refund (sale.controller.ts, sale.service.ts).                    *)
(***************************************************************************)
\* Every operator taken to be able to authorize.
UserCanAuthorizeAnyone(kind, userId) == TRUE

\* userCanAuthorize of the controller: the operator's own capability or an
\* elevated role.
UserCanAuthorize(kind, userId) ==
  \/ (IF kind = "void" THEN Users[userId].can_authorize_void
                        ELSE Users[userId].can_authorize_refund)
  \/ Users[userId].role \in {"super_admin", "manager"}

\* The controller's validation before it calls the service: Ok, or the
\* BadRequest it throws.
ControllerCheck(req) ==
  IF req.reason = NULL
    THEN Err("BadRequest", <<IF req.kind = "void" THEN "Void reason is required"
                                                   ELSE "Refund reason is required">>)
  ELSE IF UserCanAuthorize(req.kind, req.userId) THEN Ok
  ELSE IF req.supervisorId = NULL THEN Err("BadRequest", <<"Supervisor ID is required">>)
  ELSE IF req.supervisorPin = NULL THEN Err("BadRequest", <<"Supervisor PIN is required">>)
  ELSE Ok

\* The column the supervisor check of voidSale / refundSale selects the PIN
\* hash from.
SupervisorPinColumn == "supervisor_pin_hash"

\* "Verify supervisor PIN" of voidSale / refundSale: Ok, or the error thrown.
\* SELECT supervisor_pin_hash, can_authorize_... FROM users fails when users
\* has no column of that name, whatever the id; the account's status is not
\* read.  bcrypt.compare holds exactly for the PIN the hash was made of.
VerifySupervisor(kind, supervisorId, supervisorPin) ==
  IF SupervisorPinColumn \notin UsersColumns
    THEN Err("Internal", <<"column does not exist", SupervisorPinColumn>>)
  ELSE IF supervisorId \notin UserIds THEN Err("NotFound", <<"Supervisor not found">>)
  ELSE LET supervisor == Users[supervisorId] IN
    IF ~(IF kind = "void" THEN supervisor.can_authorize_void
                          ELSE supervisor.can_authorize_refund)
      THEN Err("Forbidden", <<IF kind = "void"
                                THEN "User not authorized to approve voids"
                                ELSE "User not authorized to approve refunds">>)
    ELSE IF supervisor[SupervisorPinColumn] = NULL
      THEN Err("BadRequest", <<"Supervisor PIN not set">>)
    ELSE IF supervisorPin # supervisor[SupervisorPinColumn]
      THEN Err("BadRequest", <<"Invalid supervisor PIN">>)
    ELSE Ok

\* Who authorizes: the operator on the self-authorized path, the supervisor
\* on the other.
Authorizer(req) ==
  IF UserCanAuthorize(req.kind, req.userId) THEN req.userId ELSE req.supervisorId

\* The status test left out.
TransitionableAlways(status) == TRUE

\* if (sale.status !== 'completed') throw: the statuses that pass the test.
Transitionable(status) == status = "completed"

\* The error of a sale that is not completed: `Cannot void a ${status} sale`.
StatusError(kind, status) ==
  Err("BadRequest", <<"Cannot", kind, "a", status, "sale">>)

\* UPDATE sales SET status = ... WHERE id: the row after it.  The WHERE
\* clause names the id alone, so the row is rewritten whatever its status.
TransitionedRow(sale, kind, by, authorizedBy, reason) ==
  IF kind = "void"
    THEN [sale EXCEPT !.status = "voided", !.voided_by = by,
                      !.void_authorized_by = authorizedBy, !.void_reason = reason]
    ELSE [sale EXCEPT !.status = "refunded", !.refunded_by = by,
                      !.refund_authorized_by = authorizedBy, !.refund_reason = reason,
                      !.refund_amount = sale.total_amount]

\* The stock_movements row of a restored item.  current_stock is the stock
\* read back after the UPDATE that restored it.
ReturnMovement(item, current_stock, kind, saleId) ==
  [product_id |-> item.product_id, movement_type |-> "return",
   quantity |-> item.quantity,
   quantity_before |-> current_stock - item.quantity,
   quantity_after |-> current_stock,
   reference_type |-> kind, reference_id |-> saleId]

\* "Reverse customer points": the customers row after the UPDATE, from the
\* sales row the handler read.
CustomerAfterReversal(customer, sale) ==
  [customer EXCEPT
     !.loyalty_points = @ - sale.points_earned + sale.points_redeemed,
     !.lifetime_spend = @ - sale.total_amount,
     !.total_transactions = @ - 1]

(***************************************************************************)
(* State.                                                                  *)
(***************************************************************************)
VARIABLES
  current_stock,           \* products.current_stock, committed, by product id
  customers,               \* customers rows, committed, by customer id
  sales,                   \* sales rows, committed; a sale's id is its place
  sale_items,              \* sale_items rows, committed
  sale_discounts,          \* sale_discounts rows, committed
  stock_movements,         \* stock_movements rows, committed, in creation order
  loyalty_points_history,  \* loyalty_points_history rows, committed
  current_usage,           \* promotions.current_usage, committed, by promotion
                           \* id, of the promotions whose usage is recorded
  promotion_usage,         \* promotion_usage rows, committed
  tx                       \* per worker: the request in progress and its
                           \* transaction's uncommitted writes and row locks

db == <<current_stock, customers, sales, sale_items, sale_discounts,
        stock_movements, loyalty_points_history, current_usage, promotion_usage>>

vars == <<current_stock, customers, sales, sale_items, sale_discounts,
          stock_movements, loyalty_points_history, current_usage, promotion_usage,
          tx>>

NoProduct == [id |-> NULL, selling_price |-> 0, track_inventory |-> FALSE,
              allow_backorder |-> FALSE, is_taxable |-> FALSE, tax_rate |-> 0,
              current_stock |-> 0]

NoSale == SaleRow(NoData, 0, 0, FALSE, 0, 0)

\* The Sale object getById builds from a sales row and its sale_items rows.
SaleView(saleId, sale, items) ==
  [id |-> saleId, invoiceNumber |-> sale.invoice_number,
   customerId |-> sale.customer_id, userId |-> sale.user_id,
   subtotal |-> sale.subtotal, discountAmount |-> sale.discount_amount,
   taxAmount |-> sale.tax_amount, totalAmount |-> sale.total_amount,
   status |-> sale.status, pointsEarned |-> sale.points_earned,
   pointsRedeemed |-> sale.points_redeemed, isVatExempt |-> sale.is_vat_exempt,
   items |-> [k \in 1..Len(items) |->
                [productId |-> items[k].product_id, quantity |-> items[k].quantity,
                 unitPrice |-> items[k].unit_price,
                 discountAmount |-> items[k].discount_amount,
                 subtotal |-> items[k].subtotal, totalPrice |-> items[k].total_price]]]

NoView == SaleView(0, NoSale, <<>>)

\* A worker with no request in progress.
Idle ==
  [op |-> "idle", pc |-> "idle", data |-> NoData, req |-> NoVoidData,
   i |-> 0, product |-> NoProduct, subtotal |-> 0, totalTax |-> 0,
   itemsData |-> <<>>, sale |-> NoSale, items |-> <<>>,
   stockDelta |-> [p \in ProductIds |-> 0], movements |-> <<>>,
   lockedProducts |-> {}, lockedSales |-> {}, saleId |-> 0,
   returned |-> NoView, result |-> NoResult]

Init ==
  /\ current_stock = [p \in ProductIds |-> Catalog[p].current_stock]
  /\ customers = CustomerSeed
  /\ sales = <<>>
  /\ sale_items = <<>>
  /\ sale_discounts = <<>>
  /\ stock_movements = <<>>
  /\ loyalty_points_history = <<>>
  /\ current_usage = <<>>
  /\ promotion_usage = <<>>
  /\ tx = [w \in Workers |-> Idle]

(***************************************************************************)
(* Transactions at READ COMMITTED.                                         *)
(***************************************************************************)
InProgress(w) == tx[w].pc \notin {"idle", "get_by_id", "done"}

\* The other transaction holding the lock of a products / sales row, or 0.
ProductLockHolder(w, p) ==
  IF \E v \in Workers \ {w} : p \in tx[v].lockedProducts
    THEN CHOOSE v \in Workers \ {w} : p \in tx[v].lockedProducts
    ELSE 0

SaleLockHolder(w, saleId) ==
  IF \E v \in Workers \ {w} : saleId \in tx[v].lockedSales
    THEN CHOOSE v \in Workers \ {w} : saleId \in tx[v].lockedSales
    ELSE 0

\* No unique index on sales.invoice_number: no INSERT waits.
InvoiceHolderNone(w, invoice) == 0

\* The other transaction whose uncommitted sales row holds the invoice number
\* (the unique index makes an INSERT of the same number wait for it), or 0.
InvoiceHolder(w, invoice) ==
  IF \E v \in Workers \ {w} : tx[v].pc = "customer" /\ tx[v].sale.invoice_number = invoice
    THEN CHOOSE v \in Workers \ {w} :
           tx[v].pc = "customer" /\ tx[v].sale.invoice_number = invoice
    ELSE 0

\* SELECT current_stock inside w's transaction: the committed value and the
\* transaction's own uncommitted change.
VisibleStock(t, p) == current_stock[p] + t.stockDelta[p]

\* The worker's state once its request has been answered.
Answered(t, result) ==
  [Idle EXCEPT !.op = t.op, !.pc = "done", !.req = t.req, !.result = result]

\* The worker's state after COMMIT, before `return getById(saleId)`: the
\* transaction is over and its locks are released.
Committed(t, saleId) ==
  [Idle EXCEPT !.op = t.op, !.pc = "get_by_id", !.req = t.req, !.sale = t.sale,
               !.saleId = saleId]

\* The stock with the transaction's UPDATEs left in place.
StockNotRolledBack(t) == [p \in ProductIds |-> current_stock[p] + t.stockDelta[p]]

\* products.current_stock and stock_movements after ROLLBACK of t / after
\* COMMIT of t.
StockAfterRollback(t) == current_stock

StockAfterCommit(t) == [p \in ProductIds |-> current_stock[p] + t.stockDelta[p]]

MovementsAfterRollback(t) == stock_movements

MovementsAfterCommit(t) == stock_movements \o t.movements

\* catch: ROLLBACK, release the connection, rethrow.
Abort(w, result) ==
  /\ current_stock' = StockAfterRollback(tx[w])
  /\ stock_movements' = MovementsAfterRollback(tx[w])
  /\ UNCHANGED <<customers, sales, sale_items, sale_discounts, loyalty_points_history,
                 current_usage, promotion_usage>>
  /\ tx' = [tx EXCEPT ![w] = Answered(tx[w], result)]

\* generate_invoice_number(): one more than the highest sequence number of
\* the day among the sales rows the statement sees.
GenerateInvoiceNumber ==
  MaxOf({sales[k].invoice_number : k \in 1..Len(sales)}) + 1

(***************************************************************************)
(* create                                                                  *)
(***************************************************************************)
\* An idle worker may take a create-sale request while fewer than `limit`
\* sales are made or being made.
CanCreate(w, limit) ==
  /\ tx[w].pc = "idle"
  /\ Len(sales) + Cardinality({v \in Workers : tx[v].op = "create" /\ InProgress(v)}) < limit

\* The controller validates the body, the service connects and BEGINs.
BeginCreate(w, data) ==
  /\ IF data.items = <<>>
       THEN tx' = [tx EXCEPT ![w] =
                     Answered([Idle EXCEPT !.op = "create", !.data = data],
                              Err("BadRequest", <<"Items are required">>))]
       ELSE tx' = [tx EXCEPT ![w] =
                     [Idle EXCEPT !.op = "create", !.pc = "item", !.data = data, !.i = 1]]
  /\ UNCHANGED db

\* The loop moves to the next line, or leaves for the totals.
NextLine(t) ==
  [t EXCEPT !.i = @ + 1, !.product = NoProduct,
            !.pc = IF t.i + 1 > Len(t.data.items) THEN "sale" ELSE "item"]

\* One pass of the item loop up to itemsData.push: SELECT the product, check
\* the stock, compute the line.  The insufficient-stock message names the
\* product (product.name in the handler, the product's id here) and the
\* stock the handler read.
CreateItem(w) ==
  /\ tx[w].op = "create" /\ tx[w].pc = "item"
  /\ LET t == tx[w]
         item == t.data.items[t.i]
     IN IF item.productId \notin ProductIds
          THEN Abort(w, Err("BadRequest", <<"Product not found", item.productId>>))
          ELSE
            LET product == [Catalog[item.productId] EXCEPT
                              !.current_stock = VisibleStock(t, item.productId)]
                entry == ItemData(item, product, t.data.isVatExempt)
                pushed == [t EXCEPT !.product = product,
                                    !.subtotal = @ + entry.subtotal,
                                    !.totalTax = @ + entry.taxAmount,
                                    !.itemsData = Append(@, entry)]
            IN IF InsufficientStock(product, item.quantity)
                 THEN Abort(w, Err("BadRequest",
                                   <<"Insufficient stock for", product.id,
                                     "Available", product.current_stock>>))
                 ELSE /\ tx' = [tx EXCEPT ![w] =
                                  IF product.track_inventory
                                    THEN [pushed EXCEPT !.pc = "deduct"]
                                    ELSE NextLine(pushed)]
                      /\ UNCHANGED db

\* "Deduct stock": UPDATE products, which waits while another transaction
\* holds the row, and INSERT INTO stock_movements.
CreateDeduct(w) ==
  /\ tx[w].op = "create" /\ tx[w].pc = "deduct"
  /\ LET t == tx[w]
         item == t.data.items[t.i]
         p == item.productId
     IN /\ ProductLockHolder(w, p) = 0
        /\ tx' = [tx EXCEPT ![w] =
                    NextLine([t EXCEPT
                      !.stockDelta[p] = @ - item.quantity,
                      !.movements = Append(@, SaleMovement(t.product, item.quantity)),
                      !.lockedProducts = @ \cup {p}])]
  /\ UNCHANGED db

\* The sales row is inserted (with its sale_items and sale_discounts rows,
\* which are written when the transaction commits).
Inserted(t) == [t EXCEPT !.pc = "customer"]

\* After the loop: the totals, the customer SELECT (a plain SELECT, which
\* takes no lock) and the points check; the sales row to insert is made up.
CreatePoints(w) ==
  /\ tx[w].op = "create" /\ tx[w].pc = "sale"
  /\ LET t == tx[w]
         data == t.data
         customerFound == data.customerId \in CustomerIds
         totalAmount == TotalAmount(t.subtotal, data.discountAmount, t.totalTax)
         pointsEarned ==
           IF customerFound
             THEN PointsEarned(totalAmount, customers[data.customerId].points_multiplier)
             ELSE 0
         sale == SaleRow(data, t.subtotal, t.totalTax, customerFound, pointsEarned, 0)
     IN IF customerFound
           /\ InsufficientPoints(data.pointsToRedeem, customers[data.customerId].loyalty_points)
          THEN Abort(w, Err("BadRequest",
                            <<"Insufficient points", "Available",
                              customers[data.customerId].loyalty_points>>))
          ELSE /\ tx' = [tx EXCEPT ![w] = [t EXCEPT !.sale = sale, !.pc = "insert"]]
               /\ UNCHANGED db

\* INSERT INTO sales, whose invoice_number default is computed first and
\* whose unique index then makes the INSERT wait for an uncommitted row
\* with the same number.
CreateSale(w) ==
  /\ tx[w].op = "create" /\ tx[w].pc = "insert"
  /\ LET t == tx[w]
         data == t.data
         invoice == GenerateInvoiceNumber
         sale == [t.sale EXCEPT !.invoice_number = invoice]
     IN IF data.customerId # NULL /\ data.customerId \notin CustomerIds
          THEN Abort(w, Err("Internal", <<"sales_customer_id_fkey">>))
        ELSE /\ tx' = [tx EXCEPT ![w] =
                         IF InvoiceHolder(w, invoice) # 0
                           THEN [t EXCEPT !.sale = sale, !.pc = "insert_wait"]
                           ELSE Inserted([t EXCEPT !.sale = sale])]
             /\ UNCHANGED db

\* The INSERT that waited: once the other transaction has ended, a committed
\* row with the same invoice number is a unique violation.
CreateInsertWait(w) ==
  /\ tx[w].op = "create" /\ tx[w].pc = "insert_wait"
  /\ InvoiceHolder(w, tx[w].sale.invoice_number) = 0
  /\ IF \E k \in 1..Len(sales) : sales[k].invoice_number = tx[w].sale.invoice_number
       THEN Abort(w, Err("Internal", <<"sales_invoice_number_key">>))
       ELSE /\ tx' = [tx EXCEPT ![w] = Inserted(tx[w])]
            /\ UNCHANGED db

\* "Update customer stats and points", the points history, and COMMIT.
CreateCommit(w) ==
  /\ tx[w].op = "create" /\ tx[w].pc = "customer"
  /\ LET t == tx[w]
         data == t.data
         c == data.customerId
         saleId == Len(sales) + 1
         totalAmount == TotalAmount(t.subtotal, data.discountAmount, t.totalTax)
         customer == CustomerAfterSale(customers[c], t.sale.points_earned,
                                       t.sale.points_redeemed, totalAmount)
     IN /\ current_stock' = StockAfterCommit(t)
        /\ stock_movements' = MovementsAfterCommit(t)
        /\ sales' = Append(sales, t.sale)
        /\ sale_items' = sale_items \o
                           [k \in 1..Len(t.itemsData) |-> SaleItemRow(saleId, t.itemsData[k])]
        /\ sale_discounts' = sale_discounts \o SaleDiscountRows(saleId, data)
        /\ IF c # NULL
             THEN /\ customers' = [customers EXCEPT ![c] = customer]
                  /\ loyalty_points_history' = loyalty_points_history \o
                        PointsHistoryRows(c, saleId, t.sale.points_earned,
                                          t.sale.points_redeemed, customer.loyalty_points)
             ELSE UNCHANGED <<customers, loyalty_points_history>>
        /\ UNCHANGED <<current_usage, promotion_usage>>
        /\ tx' = [tx EXCEPT ![w] = Committed(t, saleId)]

(***************************************************************************)
(* void / refund                                                           *)
(***************************************************************************)
\* SELECT product_id, quantity FROM sale_items WHERE sale_id = $1
ItemsOfSale(saleId) == SelectSeq(sale_items, LAMBDA row : row.sale_id = saleId)

\* The controller, then the service up to the status test: BEGIN, the
\* supervisor check (voidSale / refundSale only), SELECT the sale.
BeginVoid(w, req) ==
  /\ LET t == [Idle EXCEPT !.op = req.kind, !.req = req]
         selfAuthorized == UserCanAuthorize(req.kind, req.userId)
         verified == IF selfAuthorized THEN Ok
                     ELSE VerifySupervisor(req.kind, req.supervisorId, req.supervisorPin)
     IN IF ControllerCheck(req) # Ok
          THEN tx' = [tx EXCEPT ![w] = Answered(t, ControllerCheck(req))]
        ELSE IF verified # Ok
          THEN tx' = [tx EXCEPT ![w] = Answered(t, verified)]
        ELSE IF req.saleId \notin 1..Len(sales)
          THEN tx' = [tx EXCEPT ![w] = Answered(t, Err("NotFound", <<"Sale not found">>))]
        ELSE IF ~Transitionable(sales[req.saleId].status)
          THEN tx' = [tx EXCEPT ![w] =
                        Answered(t, StatusError(req.kind, sales[req.saleId].status))]
        ELSE tx' = [tx EXCEPT ![w] =
                      [t EXCEPT !.pc = "update_sale", !.sale = sales[req.saleId]]]
  /\ UNCHANGED db

\* "Update sale status": UPDATE sales, which waits while another transaction
\* holds the row and then rewrites it, and the SELECT of the sale's items.
VoidUpdateSale(w) ==
  /\ tx[w].op \in {"void", "refund"} /\ tx[w].pc = "update_sale"
  /\ SaleLockHolder(w, tx[w].req.saleId) = 0
  /\ tx' = [tx EXCEPT ![w] =
              [@ EXCEPT !.lockedSales = @ \cup {tx[w].req.saleId},
                        !.items = ItemsOfSale(tx[w].req.saleId),
                        !.i = 1,
                        !.pc = IF ItemsOfSale(tx[w].req.saleId) = <<>>
                                 THEN "reverse" ELSE "restore"]]
  /\ UNCHANGED db

\* "Restore stock", one item: UPDATE products (waiting for the row), SELECT
\* the stock back, INSERT INTO stock_movements.
VoidRestore(w) ==
  /\ tx[w].op \in {"void", "refund"} /\ tx[w].pc = "restore"
  /\ LET t == tx[w]
         item == t.items[t.i]
         p == item.product_id
         restored == [t EXCEPT !.stockDelta[p] = @ + item.quantity,
                               !.lockedProducts = @ \cup {p}]
     IN /\ ProductLockHolder(w, p) = 0
        /\ tx' = [tx EXCEPT ![w] =
                    [restored EXCEPT
                       !.movements = Append(@, ReturnMovement(item, VisibleStock(restored, p),
                                                              t.req.kind, t.req.saleId)),
                       !.i = @ + 1,
                       !.pc = IF t.i + 1 > Len(t.items) THEN "reverse" ELSE "restore"]]
  /\ UNCHANGED db

\* "Reverse customer points", from the sales row read before the UPDATE,
\* and COMMIT.
VoidCommit(w) ==
  /\ tx[w].op \in {"void", "refund"} /\ tx[w].pc = "reverse"
  /\ LET t == tx[w]
         saleId == t.req.saleId
         c == t.sale.customer_id
     IN /\ current_stock' = StockAfterCommit(t)
        /\ stock_movements' = MovementsAfterCommit(t)
        /\ sales' = [sales EXCEPT ![saleId] =
                       TransitionedRow(@, t.req.kind, t.req.userId, Authorizer(t.req),
                                       t.req.reason)]
        /\ IF c # NULL
             THEN customers' = [customers EXCEPT ![c] = CustomerAfterReversal(@, t.sale)]
             ELSE UNCHANGED customers
        /\ UNCHANGED <<sale_items, sale_discounts, loyalty_points_history,
                       current_usage, promotion_usage>>
        /\ tx' = [tx EXCEPT ![w] = Committed(t, saleId)]

(***************************************************************************)
(* Waiting, deadlock and the end of a request.                             *)
(***************************************************************************)
\* The transaction w's next statement waits for, or 0.
Blocker(w) ==
  CASE tx[w].pc = "deduct" ->
         ProductLockHolder(w, tx[w].data.items[tx[w].i].productId)
    [] tx[w].pc = "restore" ->
         ProductLockHolder(w, tx[w].items[tx[w].i].product_id)
    [] tx[w].pc = "update_sale" -> SaleLockHolder(w, tx[w].req.saleId)
    [] tx[w].pc = "insert_wait" -> InvoiceHolder(w, tx[w].sale.invoice_number)
    [] OTHER -> 0

RECURSIVE WaitsOn(_, _, _)
WaitsOn(v, w, n) ==
  IF v = 0 \/ n = 0 THEN FALSE
  ELSE v = w \/ WaitsOn(Blocker(v), w, n - 1)

\* PostgreSQL's deadlock detector ends one transaction of a cycle of waits
\* with an error; the handler rolls back.
DeadlockAbort(w) ==
  /\ InProgress(w)
  /\ WaitsOn(Blocker(w), w, Cardinality(Workers))
  /\ Abort(w, Err("Internal", <<"deadlock detected">>))

\* `return getById(saleId)` of create and of the void / refund functions: on
\* a connection of its own, after COMMIT, SELECT the sales row and its
\* sale_items rows and build the Sale that is returned.
GetById(w) ==
  /\ tx[w].pc = "get_by_id"
  /\ LET saleId == tx[w].saleId
     IN tx' = [tx EXCEPT ![w] =
                 [Answered(tx[w], OkSale(saleId)) EXCEPT
                    !.returned = SaleView(saleId, sales[saleId], ItemsOfSale(saleId))]]
  /\ UNCHANGED db

\* The response is sent; the worker takes the next request.
Return(w) ==
  /\ tx[w].pc = "done"
  /\ tx' = [tx EXCEPT ![w] = Idle]
  /\ UNCHANGED db

(***************************************************************************)
(* The requests the workers draw from.                                     *)
(***************************************************************************)
\* Concurrent workers: carts that meet on p1 and p3 in both orders, with and
\* without a customer, a cart that takes no row lock, carts that fail on a
\* later line (out of stock, product missing), and carts that redeem the
\* customer's one point, of which only the first finds it.
ConcSaleData ==
  { SaleData(<<Line("p1", 2, 0)>>, NULL, 0, FALSE, NULL, 0),
    SaleData(<<Line("p1", 1, 0), Line("p3", 1, 0)>>, "c1", 0, FALSE, NULL, 1),
    SaleData(<<Line("p3", 1, 0), Line("p1", 1, 0)>>, "c1", 1000, TRUE, "senior_citizen", 0),
    SaleData(<<Line("p1", 1, 0), Line("p1", 2, 0)>>, NULL, 0, FALSE, NULL, 0),
    SaleData(<<Line("p1", 1, 0), Line(MissingProduct, 1, 0)>>, NULL, 0, FALSE, NULL, 0),
    SaleData(<<Line("p2", 1, 0)>>, "c1", 0, FALSE, NULL, 1) }

\* Void and refund requests by the manager on their own authority
\* (voidSaleSelfAuthorized, refundSaleSelfAuthorized).
ConcVoidData ==
  { VoidData(kind, saleId, "s1", "r", NULL, NULL) :
      kind \in {"void", "refund"}, saleId \in 1..MaxSales }

\* One create-sale request on the seeded database: every cart of one or two
\* lines and every combination of the sale-level inputs.
Lines ==
  { Line(p, q, d) : p \in ProductIds \cup {MissingProduct}, q \in 1..MaxQty, d \in {0, 500} }

Carts == { <<a>> : a \in Lines } \cup { <<a, b>> : a \in Lines, b \in Lines }

AllSaleData ==
  { SaleData(items, c, d, exempt, reason, pts) :
      items \in Carts \cup {<<>>}, c \in {NULL, "c1"}, d \in {0, 1000, 4000},
      exempt \in BOOLEAN, reason \in {NULL, "senior_citizen"}, pts \in {0, 1, 5} }

OneVoidData ==
  { VoidData(kind, 1, "s1", "r", NULL, NULL) : kind \in {"void", "refund"} }

(***************************************************************************)
(* Specifications.                                                         *)
(***************************************************************************)
\* Concurrent request-handling workers.
Next ==
  \E w \in Workers :
    \/ CanCreate(w, MaxSales) /\ \E data \in ConcSaleData : BeginCreate(w, data)
    \/ CreateItem(w)
    \/ CreateDeduct(w)
    \/ CreatePoints(w)
    \/ CreateSale(w)
    \/ CreateInsertWait(w)
    \/ CreateCommit(w)
    \/ tx[w].pc = "idle" /\ \E req \in ConcVoidData : BeginVoid(w, req)
    \/ VoidUpdateSale(w)
    \/ VoidRestore(w)
    \/ VoidCommit(w)
    \/ DeadlockAbort(w)
    \/ GetById(w)
    \/ Return(w)

Spec == Init /\ [][Next]_vars

\* One worker, one create-sale request drawn from all of AllSaleData on the
\* seeded database, then voids and refunds of the sale it made.
OneSaleNext ==
  \/ CanCreate(1, 1) /\ \E data \in AllSaleData : BeginCreate(1, data)
  \/ CreateItem(1)
  \/ CreateDeduct(1)
  \/ CreatePoints(1)
  \/ CreateSale(1)
  \/ CreateCommit(1)
  \/ tx[1].pc = "idle" /\ \E req \in OneVoidData : BeginVoid(1, req)
  \/ VoidUpdateSale(1)
  \/ VoidRestore(1)
  \/ VoidCommit(1)
  \/ GetById(1)
  \/ Return(1)

OneSaleSpec == Init /\ [][OneSaleNext]_vars

\* One sale of a customer, then every void / refund request on it: by the
\* cashier, the manager and the void-only supervisor, with and without a
\* reason, naming no supervisor, each user, or an unknown id, with no PIN or
\* a PIN.
AuthSaleData == { SaleData(<<Line("p1", 1, 0)>>, "c1", 0, FALSE, NULL, 0) }

AuthVoidData ==
  { VoidData(kind, 1, userId, reason, supervisorId, supervisorPin) :
      kind \in {"void", "refund"}, userId \in {"u1", "s1", "s4"},
      reason \in {NULL, "r"},
      supervisorId \in {NULL, "s1", "s2", "s3", "s4", "sx"},
      supervisorPin \in {NULL, "pin1", "pin3", "pin4"} }

AuthNext ==
  \/ CanCreate(1, 1) /\ \E data \in AuthSaleData : BeginCreate(1, data)
  \/ CreateItem(1)
  \/ CreateDeduct(1)
  \/ CreatePoints(1)
  \/ CreateSale(1)
  \/ CreateCommit(1)
  \/ tx[1].pc = "idle" /\ \E req \in AuthVoidData : BeginVoid(1, req)
  \/ VoidUpdateSale(1)
  \/ VoidRestore(1)
  \/ VoidCommit(1)
  \/ GetById(1)
  \/ Return(1)

AuthSpec == Init /\ [][AuthNext]_vars

(***************************************************************************)
(* Discount evaluator: calculateDiscounts (discount.service.ts).           *)
(*                                                                         *)
(* subtotal is in minor units and a percentage is a whole number of        *)
(* percent.  The amounts the function computes, a percentage of a          *)
(* percentage of the subtotal, are carried exactly in 1/10000 of a minor   *)
(* unit; the function stores nothing, so nothing is rounded.               *)
(***************************************************************************)
\* discount_settings rows of the two government discounts; discount_type is
\* UNIQUE, so there is at most one row of each type.
DiscountSetting(type, percentage, isActive) ==
  [discount_type |-> type, percentage |-> percentage, is_vat_exempt |-> TRUE,
   is_active |-> isActive]

\* SELECT * FROM discount_settings WHERE is_active = TRUE AND discount_type IN
\* ('senior_citizen', 'pwd')
GovDiscounts(discount_settings) ==
  {d \in discount_settings :
     d.is_active /\ d.discount_type \in {"senior_citizen", "pwd"}}

\* membership_tiers rows: the seeded Regular, Bronze and Gold tiers and a tier
\* that has been deactivated.
MembershipTiers ==
  {[id |-> "regular", discount_percentage |-> 0, is_active |-> TRUE],
   [id |-> "bronze", discount_percentage |-> 3, is_active |-> TRUE],
   [id |-> "gold", discount_percentage |-> 8, is_active |-> TRUE],
   [id |-> "retired", discount_percentage |-> 5, is_active |-> FALSE]}

\* SELECT * FROM membership_tiers WHERE id = $1 AND is_active = TRUE
TierResult(membershipTierId) ==
  {t \in MembershipTiers : t.id = membershipTierId /\ t.is_active}

\* govDiscounts.rows.find(d => d.discount_type === type), as a set of at most
\* one row.
FindDiscount(govDiscounts, type) == {d \in govDiscounts : d.discount_type = type}

\* The branch of the if / else if on the two flags: the type whose setting
\* is looked up, senior citizen before PWD.
GovernmentType(isSeniorCitizen, isPwd) ==
  IF isSeniorCitizen THEN "senior_citizen" ELSE IF isPwd THEN "pwd" ELSE NULL

\* The membership discount taken on the whole subtotal.
DiscountableFull(subtotal, governmentDiscount) == subtotal * 10000

\* discountableAmount = subtotal - governmentDiscount
DiscountableAmount(subtotal, governmentDiscount) ==
  subtotal * 10000 - governmentDiscount

\* calculateDiscounts(params), given the rows of its first SELECT.
CalculateDiscounts(params, govDiscounts) ==
  LET found == FindDiscount(govDiscounts,
                            GovernmentType(params.isSeniorCitizen, params.isPwd))
      applied == found # {}
      setting == CHOOSE d \in found : TRUE
      governmentDiscount ==
        IF applied THEN params.subtotal * setting.percentage * 100 ELSE 0
      government ==
        IF applied
          THEN <<[type |-> setting.discount_type, percentage |-> setting.percentage,
                  amount |-> governmentDiscount]>>
          ELSE <<>>
      tiers == IF params.membershipTierId # NULL
                 THEN TierResult(params.membershipTierId) ELSE {}
      tier == CHOOSE t \in tiers : TRUE
      membershipDiscount ==
        IF tiers # {}
          THEN (DiscountableAmount(params.subtotal, governmentDiscount)
                  * tier.discount_percentage) \div 100
          ELSE 0
      membership ==
        IF tiers # {} /\ membershipDiscount > 0
          THEN <<[type |-> "membership", percentage |-> tier.discount_percentage,
                  amount |-> membershipDiscount]>>
          ELSE <<>>
  IN  [governmentDiscount |-> governmentDiscount,
       membershipDiscount |-> membershipDiscount,
       isVatExempt |-> IF applied THEN setting.is_vat_exempt ELSE FALSE,
       appliedDiscounts |-> government \o membership]

\* The calls of calculateDiscounts that are made: every combination of the
\* flags, a tier that is absent, active, inactive or unknown, and each of the
\* two settings active or not, with equal or different percentages.
DiscountParams ==
  [subtotal : {0, 9999, 20000}, isSeniorCitizen : BOOLEAN, isPwd : BOOLEAN,
   membershipTierId : {NULL, "regular", "bronze", "gold", "retired", "tx"}]

DiscountSettingsTables ==
  {{DiscountSetting("senior_citizen", 20, scActive),
    DiscountSetting("pwd", pwdPercentage, pwdActive),
    DiscountSetting("employee", 10, TRUE)} :
     <<scActive, pwdActive, pwdPercentage>> \in BOOLEAN \X BOOLEAN \X {20, 5}}

NoDiscounts ==
  [governmentDiscount |-> 0, membershipDiscount |-> 0, isVatExempt |-> FALSE,
   appliedDiscounts |-> <<>>]

\* A worker in a call of calculateDiscounts.
DiscountCall(params, discount_settings) ==
  [op |-> "calculateDiscounts", pc |-> "call", params |-> params,
   discount_settings |-> discount_settings, discounts |-> NoDiscounts]

DiscountInit ==
  /\ current_stock = [p \in ProductIds |-> Catalog[p].current_stock]
  /\ customers = CustomerSeed
  /\ sales = <<>>
  /\ sale_items = <<>>
  /\ sale_discounts = <<>>
  /\ stock_movements = <<>>
  /\ loyalty_points_history = <<>>
  /\ current_usage = <<>>
  /\ promotion_usage = <<>>
  /\ \E params \in DiscountParams, discount_settings \in DiscountSettingsTables :
       tx = [w \in Workers |->
               IF w = 1 THEN DiscountCall(params, discount_settings) ELSE Idle]

\* The call runs and returns.
ApplyCalculateDiscounts(w) ==
  /\ tx[w].pc = "call"
  /\ tx[w].op = "calculateDiscounts"
  /\ tx' = [tx EXCEPT ![w].pc = "done",
                      ![w].discounts =
                        CalculateDiscounts(tx[w].params,
                                           GovDiscounts(tx[w].discount_settings))]
  /\ UNCHANGED db

DiscountNext == ApplyCalculateDiscounts(1)

DiscountSpec == DiscountInit /\ [][DiscountNext]_vars

(***************************************************************************)
(* Promotion engine: checkApplicable and its helpers                       *)
(* (promotion.service.ts).                                                 *)
(*                                                                         *)
(* Prices, fixed discount values and the minimum and maximum amounts are   *)
(* in minor units, a percentage value is a whole number of percent, and a  *)
(* discount the engine computes is carried exactly in hundredths of a      *)
(* minor unit.  A numeric column that is NULL is written 0: the code tests *)
(* every one of them by truthiness and so does not tell NULL from 0.  A    *)
(* JSONB array column is the set of its elements in a set of at most one   *)
(* member, and {} when the column is NULL.                                 *)
(***************************************************************************)
\* The most rows the promotions table holds.
MaxPromotions == 4

NoArray == {}

Array(elements) == {elements}

\* promo.targetX && promo.targetX.length > 0
NonEmptyArray(column) == \E elements \in column : elements # {}

\* promo.targetX.includes(id), for a column known to hold an array
Includes(column, id) == \E elements \in column : id \in elements

\* String.prototype.toUpperCase on the codes in use.
ToUpperCase(code) ==
  CASE code = "save10" -> "SAVE10"
    [] code = "vip" -> "VIP"
    [] OTHER -> code

\* A promotions row, with the columns checkApplicable and its helpers read.
Promotion(id, code, promotionType, discountValue, isStackable, priority) ==
  [id |-> id, code |-> code, promotionType |-> promotionType,
   discountValue |-> discountValue, buyQuantity |-> 0, getQuantity |-> 0,
   minPurchaseAmount |-> 0, maxDiscountAmount |-> 0,
   usageLimit |-> 0, currentUsage |-> 0,
   targetType |-> "all", targetProducts |-> NoArray, targetCategories |-> NoArray,
   targetCustomers |-> NoArray, targetMembershipTiers |-> NoArray,
   isStackable |-> isStackable, priority |-> priority, isActive |-> TRUE]

\* The promotions that may be in the table.  All are within their dates.
PromotionPool ==
  {Promotion("auto10", NULL, "percentage", 10, FALSE, 5),
   [Promotion("bogo", NULL, "buy_x_get_y", 0, TRUE, 4) EXCEPT
      !.buyQuantity = 1, !.getQuantity = 1, !.targetType = "products",
      !.targetProducts = Array({"p1"})],
   [Promotion("save10", "SAVE10", "percentage", 10, FALSE, 1) EXCEPT
      !.maxDiscountAmount = 1500],
   [Promotion("vip", "VIP", "fixed_amount", 2000, TRUE, 5) EXCEPT
      !.targetMembershipTiers = Array({"gold"})],
   [Promotion("bulk", NULL, "fixed_amount", 500, TRUE, 3) EXCEPT
      !.minPurchaseAmount = 10000],
   [Promotion("welcome", NULL, "fixed_amount", 100, FALSE, 1) EXCEPT
      !.targetType = "customers", !.targetCustomers = Array({"c1"})],
   [Promotion("used", NULL, "percentage", 50, FALSE, 9) EXCEPT
      !.usageLimit = 1, !.currentUsage = 1],
   [Promotion("off", NULL, "percentage", 50, FALSE, 9) EXCEPT !.isActive = FALSE]}

\* The rows of the SELECT, before its ORDER BY: active promotions with usage
\* left.
ActivePromotions(promotions) ==
  {promo \in promotions :
     /\ promo.isActive
     /\ promo.usageLimit = 0 \/ promo.currentUsage < promo.usageLimit}

\* ORDER BY priority DESC: the orders in which the rows can come back; rows of
\* equal priority come in any order.
OrderByPriorityDesc(rows) ==
  {order \in [1..Cardinality(rows) -> rows] :
     /\ \A i, j \in 1..Cardinality(rows) : i # j => order[i] # order[j]
     /\ \A i, j \in 1..Cardinality(rows) :
          i < j => order[i].priority >= order[j].priority}

\* items.reduce((sum, item) => sum + item.price * item.quantity, 0)
CartSubtotal(items) ==
  SumSeq([k \in 1..Len(items) |-> items[k].price * items[k].quantity])

\* checkPromotionConditions
CheckPromotionConditions(promo, items, subtotal, customerId, membershipTierId) ==
  /\ ~(promo.minPurchaseAmount # 0 /\ subtotal < promo.minPurchaseAmount)
  /\ CASE promo.targetType = "products" ->
            NonEmptyArray(promo.targetProducts) =>
              \E k \in 1..Len(items) : Includes(promo.targetProducts, items[k].productId)
       [] promo.targetType = "categories" ->
            NonEmptyArray(promo.targetCategories) =>
              \E k \in 1..Len(items) :
                /\ items[k].categoryId # NULL
                /\ Includes(promo.targetCategories, items[k].categoryId)
       [] promo.targetType = "customers" ->
            NonEmptyArray(promo.targetCustomers) =>
              customerId # NULL /\ Includes(promo.targetCustomers, customerId)
       [] OTHER -> TRUE
  /\ NonEmptyArray(promo.targetMembershipTiers) =>
       membershipTierId # NULL /\ Includes(promo.targetMembershipTiers, membershipTierId)

\* The free-item value of a buy_x_get_y promotion on one cart line, in minor
\* units.
FreeItemValue(promo, item) ==
  IF promo.targetProducts = NoArray \/ Includes(promo.targetProducts, item.productId)
    THEN (item.quantity \div (promo.buyQuantity + promo.getQuantity))
           * promo.getQuantity * item.price
    ELSE 0

\* The switch on promo.promotionType, in hundredths of a minor unit.
UncappedDiscount(promo, items, subtotal) ==
  CASE promo.promotionType = "percentage" -> subtotal * promo.discountValue
    [] promo.promotionType = "fixed_amount" -> promo.discountValue * 100
    [] promo.promotionType = "buy_x_get_y" ->
         IF promo.buyQuantity # 0 /\ promo.getQuantity # 0
           THEN SumSeq([k \in 1..Len(items) |-> FreeItemValue(promo, items[k])]) * 100
           ELSE 0
    [] OTHER -> 0

\* The discount returned without the cap.
DiscountUncapped(promo, discount) == discount

\* "Apply max discount cap"
CapDiscount(promo, discount) ==
  IF promo.maxDiscountAmount # 0 /\ discount > promo.maxDiscountAmount * 100
    THEN promo.maxDiscountAmount * 100
    ELSE discount

\* calculateDiscount
CalculateDiscount(promo, items, subtotal) ==
  CapDiscount(promo, UncappedDiscount(promo, items, subtotal))

\* One cart line of a checkApplicable request.
CartItem(productId, quantity) ==
  [productId |-> productId, categoryId |-> NULL, quantity |-> quantity,
   price |-> Catalog[productId].selling_price]

\* The requests of checkApplicable: three carts, with and without customer
\* and Gold tier, without coupon code, with the code of "save10" in lower
\* case, with the code of "vip", and with a code no promotion has.
PromoParams ==
  [items : {<<CartItem("p1", 2)>>, <<CartItem("p1", 1), CartItem("p2", 3)>>,
            <<CartItem("p2", 1)>>},
   customerId : {NULL, "c1"}, membershipTierId : {NULL, "gold"},
   couponCode : {NULL, "save10", "VIP", "NOPE"}]

\* The promotions tables: up to MaxPromotions rows of the pool.
PromotionsTables ==
  {promotions \in SUBSET PromotionPool : Cardinality(promotions) <= MaxPromotions}

\* A worker in a call of checkApplicable, after its SELECT: promo i of
\* activePromotions is the next the loop takes.  evaluated lists the
\* promotions checkPromotionConditions has been called on, in order.
ApplicableCall(params, activePromotions) ==
  [op |-> "checkApplicable", pc |-> "loop", params |-> params,
   activePromotions |-> activePromotions, i |-> 1,
   subtotal |-> CartSubtotal(params.items),
   evaluated |-> <<>>, applicable |-> <<>>, totalDiscount |-> 0]

PromoInit ==
  /\ current_stock = [p \in ProductIds |-> Catalog[p].current_stock]
  /\ customers = CustomerSeed
  /\ sales = <<>>
  /\ sale_items = <<>>
  /\ sale_discounts = <<>>
  /\ stock_movements = <<>>
  /\ loyalty_points_history = <<>>
  /\ current_usage = <<>>
  /\ promotion_usage = <<>>
  /\ \E promotions \in PromotionsTables :
       \E activePromotions \in OrderByPriorityDesc(ActivePromotions(promotions)) :
         \E params \in PromoParams :
           tx = [w \in Workers |->
                   IF w = 1 THEN ApplicableCall(params, activePromotions) ELSE Idle]

\* The coupon code of the request matches the promotion's code.
CouponMatches(couponCode, promo) ==
  /\ couponCode # NULL
  /\ promo.code # NULL
  /\ ToUpperCase(promo.code) = ToUpperCase(couponCode)

\* The loop body calls checkPromotionConditions on the promotion: it matches
\* the coupon code, or it has no code.
Taken(couponCode, promo) == CouponMatches(couponCode, promo) \/ promo.code = NULL

\* No promotion ends the loop.
BreaksNever(promo) == FALSE

\* if (!promo.isStackable) break;
Breaks(promo) == ~promo.isStackable

\* One iteration of `for (const promo of activePromotions)`.
CheckPromotion(w) ==
  /\ tx[w].op = "checkApplicable"
  /\ tx[w].pc = "loop"
  /\ tx[w].i <= Len(tx[w].activePromotions)
  /\ LET t == tx[w]
         promo == t.activePromotions[t.i]
         taken == Taken(t.params.couponCode, promo)
         eligible ==
           taken /\ CheckPromotionConditions(promo, t.params.items, t.subtotal,
                                             t.params.customerId,
                                             t.params.membershipTierId)
     IN  tx' = [tx EXCEPT ![w] =
                  [t EXCEPT
                     !.evaluated = IF taken THEN Append(@, promo.id) ELSE @,
                     !.applicable = IF eligible THEN Append(@, promo) ELSE @,
                     !.totalDiscount =
                       IF eligible
                         THEN @ + CalculateDiscount(promo, t.params.items, t.subtotal)
                         ELSE @,
                     !.pc = IF eligible /\ Breaks(promo) THEN "return" ELSE @,
                     !.i = @ + 1]]
  /\ UNCHANGED db

\* return { applicable, discountAmount: totalDiscount }
ReturnApplicable(w) ==
  /\ tx[w].op = "checkApplicable"
  /\ \/ tx[w].pc = "return"
     \/ tx[w].pc = "loop" /\ tx[w].i > Len(tx[w].activePromotions)
  /\ tx' = [tx EXCEPT ![w].pc = "done"]
  /\ UNCHANGED db

PromoNext ==
  \/ CheckPromotion(1)
  \/ ReturnApplicable(1)

PromoSpec == PromoInit /\ [][PromoNext]_vars

\* The calls of calculateDiscount: promotions of every type, with and without
\* quantities, cap and target products, on four carts.
CalcPromotions ==
  {[Promotion("promo", NULL, promotionType, discountValue, TRUE, 0) EXCEPT
      !.buyQuantity = buyQuantity, !.getQuantity = getQuantity,
      !.maxDiscountAmount = maxDiscountAmount, !.targetProducts = targetProducts] :
     <<promotionType, discountValue, buyQuantity, getQuantity, maxDiscountAmount,
       targetProducts>> \in
         {"percentage", "fixed_amount", "buy_x_get_y", "bundle"} \X {10, 2500}
           \X {0, 1, 2} \X {0, 1} \X {0, 1500, 1000000}
           \X {NoArray, Array({}), Array({"p1"})}}

CalcCarts ==
  {<<CartItem("p1", 2)>>, <<CartItem("p1", 1), CartItem("p2", 3)>>,
   <<CartItem("p2", 1)>>, <<CartItem("p1", 2), CartItem("p3", 2)>>}

\* A worker in a call of calculateDiscount.
CalcCall(promo, items) ==
  [op |-> "calculateDiscount", pc |-> "call", promo |-> promo, items |-> items,
   subtotal |-> CartSubtotal(items), discount |-> 0]

CalcInit ==
  /\ current_stock = [p \in ProductIds |-> Catalog[p].current_stock]
  /\ customers = CustomerSeed
  /\ sales = <<>>
  /\ sale_items = <<>>
  /\ sale_discounts = <<>>
  /\ stock_movements = <<>>
  /\ loyalty_points_history = <<>>
  /\ current_usage = <<>>
  /\ promotion_usage = <<>>
  /\ \E promo \in CalcPromotions, items \in CalcCarts :
       tx = [w \in Workers |-> IF w = 1 THEN CalcCall(promo, items) ELSE Idle]

\* The call runs and returns.
ApplyCalculateDiscount(w) ==
  /\ tx[w].op = "calculateDiscount"
  /\ tx[w].pc = "call"
  /\ tx' = [tx EXCEPT ![w].pc = "done",
                      ![w].discount =
                        CalculateDiscount(tx[w].promo, tx[w].items, tx[w].subtotal)]
  /\ UNCHANGED db

CalcNext == ApplyCalculateDiscount(1)

CalcSpec == CalcInit /\ [][CalcNext]_vars

\* Two evaluations of one checkApplicable request against one promotions
\* table at the same instant, one by each worker: each SELECT returns the
\* rows in an order its ORDER BY priority DESC allows.
SameRequestInit ==
  /\ current_stock = [p \in ProductIds |-> Catalog[p].current_stock]
  /\ customers = CustomerSeed
  /\ sales = <<>>
  /\ sale_items = <<>>
  /\ sale_discounts = <<>>
  /\ stock_movements = <<>>
  /\ loyalty_points_history = <<>>
  /\ current_usage = <<>>
  /\ promotion_usage = <<>>
  /\ \E promotions \in PromotionsTables :
       \E order \in [Workers -> OrderByPriorityDesc(ActivePromotions(promotions))] :
         \E params \in PromoParams :
           tx = [w \in Workers |-> ApplicableCall(params, order[w])]

SameRequestNext ==
  \E w \in Workers :
    \/ CheckPromotion(w)
    \/ ReturnApplicable(w)

SameRequestSpec == SameRequestInit /\ [][SameRequestNext]_vars

(***************************************************************************)
(* Properties.                                                             *)
(***************************************************************************)
Quantities(rows) == [k \in 1..Len(rows) |-> rows[k].quantity]

\* The units of product p on the sale_items rows of all sales.
SoldQuantity(p) ==
  SumSeq(Quantities(SelectSeq(sale_items, LAMBDA row : row.product_id = p)))

\* The sum of the signed quantities of the stock_movements rows of product p.
MovementSum(p) ==
  SumSeq(Quantities(SelectSeq(stock_movements, LAMBDA row : row.product_id = p)))

NoBackorderTracked(p) == Catalog[p].track_inventory /\ ~Catalog[p].allow_backorder

AllCompleted == \A s \in 1..Len(sales) : sales[s].status = "completed"

\* C1: with create-sale requests running concurrently, the stock of a
\* stock-tracked product without backorder is never negative, and while no
\* sale has been voided or refunded it equals the initial stock minus the
\* quantities of the sales that committed.
C1_NoOversell ==
  \A p \in ProductIds :
    NoBackorderTracked(p) =>
      /\ current_stock[p] >= 0
      /\ AllCompleted => current_stock[p] = Catalog[p].current_stock - SoldQuantity(p)

\* C2: for every product the signed quantities of its stock_movements rows
\* sum to its current stock minus its initial stock, whatever create-sale,
\* void and refund operations have run.
C2_StockConservation ==
  \A p \in ProductIds : MovementSum(p) = current_stock[p] - Catalog[p].current_stock

\* A state after two sales of p1, one voided and one refunded.
C2_Witness ==
  /\ Len(sales) = 2
  /\ {sales[1].status, sales[2].status} = {"voided", "refunded"}
  /\ Len(SelectSeq(stock_movements, LAMBDA row : row.product_id = "p1")) >= 4

\* A void or refund request arrives at worker w for a sale that exists.
Called(w) ==
  /\ tx[w].pc = "idle"
  /\ tx'[w].op \in {"void", "refund"}
  /\ tx'[w].req.saleId \in 1..Len(sales)

\* The request of worker w has been answered and none of its work remains.
Ended(t) ==
  /\ t.pc = "done"
  /\ t.movements = <<>> /\ t.lockedProducts = {} /\ t.lockedSales = {}
  /\ \A p \in ProductIds : t.stockDelta[p] = 0

\* C3: a void or refund called on a sale that is already voided or refunded
\* fails with an error and leaves stock, stock movements, the customer's
\* loyalty points, lifetime spend and transaction count, and the sale's
\* status and audit fields as they were.
C3_RepeatRejected ==
  [][\A w \in Workers :
       (Called(w) /\ sales[tx'[w].req.saleId].status \in {"voided", "refunded"})
         => /\ Ended(tx'[w])
            /\ IsError(tx'[w].result)
            /\ db' = db]_vars

\* A refund of a voided sale, or a void of a refunded one, has been refused
\* for its status.
C3_Witness ==
  \E w \in Workers :
    /\ tx[w].pc = "done"
    /\ tx[w].op \in {"void", "refund"}
    /\ tx[w].req.saleId \in 1..Len(sales)
    /\ sales[tx[w].req.saleId].status \in {"voided", "refunded"}
    /\ tx[w].result = StatusError(tx[w].op, sales[tx[w].req.saleId].status)

\* The return rows of stock_movements written for sale s.
ReturnRows(s) ==
  SelectSeq(stock_movements,
       LAMBDA row : row.movement_type = "return" /\ row.reference_id = s)

\* The workers whose void or refund of sale s has just succeeded.
Succeeded(s) ==
  {w \in Workers : /\ tx[w].op \in {"void", "refund"} /\ tx[w].pc = "done"
                    /\ tx[w].req.saleId = s /\ tx[w].result.ok}

CompletedSalesOf(c) ==
  {s \in 1..Len(sales) : sales[s].customer_id = c /\ sales[s].status = "completed"}

\* C4: of the void/refund requests made at the same time for one completed
\* sale at most one succeeds; each item's stock is restored once, the
\* customer is reversed once, and the sale carries the audit fields of the
\* one transition that happened.
C4_OneTransition ==
  /\ \A s \in 1..Len(sales) :
        /\ Cardinality(Succeeded(s)) <= 1
        /\ Len(ReturnRows(s)) <= Len(ItemsOfSale(s))
        /\ sales[s].status = "voided" =>
              sales[s].refunded_by = NULL /\ sales[s].refund_reason = NULL
        /\ sales[s].status = "refunded" =>
              sales[s].voided_by = NULL /\ sales[s].void_reason = NULL
  /\ \A c \in CustomerIds :
        customers[c].total_transactions = Cardinality(CompletedSalesOf(c))

\* C6: a sale's status moves only from completed to voided or to refunded and
\* never changes afterwards, and a void or refund of a sale that is not
\* completed fails with an error that names the sale's status.
C6_StatusTerminal ==
  [][/\ \A s \in 1..Len(sales) :
          \/ sales'[s].status = sales[s].status
          \/ sales[s].status = "completed" /\ sales'[s].status \in {"voided", "refunded"}
     /\ \A w \in Workers :
          (Called(w) /\ sales[tx'[w].req.saleId].status # "completed")
            => tx'[w].result = StatusError(tx'[w].op, sales[tx'[w].req.saleId].status)]_vars

\* C7: a create-sale request that fails leaves no sales, sale_items,
\* sale_discounts, stock_movements or loyalty_points_history row behind and
\* leaves every stock and points balance as it was before the request.
C7_CreateAllOrNothing ==
  [][\A w \in Workers :
       (tx'[w].op = "create" /\ tx[w].pc # "done" /\ tx'[w].pc = "done"
          /\ IsError(tx'[w].result))
         => /\ Ended(tx'[w])
            /\ db' = db]_vars

\* A create-sale request has failed on its second line of p1 after its first
\* line took a unit: it saw less stock than the table holds.
C7_Witness ==
  \E w \in Workers :
    /\ tx[w].op = "create" /\ tx[w].pc = "done"
    /\ IsError(tx[w].result)
    /\ Len(tx[w].result.message) = 4
    /\ tx[w].result.message[2] = "p1"
    /\ tx[w].result.message[4] < current_stock["p1"]

\* C5: a sale created and then voided, with nothing in between, leaves every
\* product's stock and the customer's loyalty points as they were before the
\* sale, for every cart, whether or not its products track inventory.
C5_VoidUndoesCreate ==
  (Len(sales) = 1 /\ sales[1].status = "voided")
    => /\ \A p \in ProductIds : current_stock[p] = Catalog[p].current_stock
       /\ \A c \in CustomerIds :
            customers[c].loyalty_points = CustomerSeed[c].loyalty_points

\* The sale's amounts are whole minor units: the tax of each of its lines,
\* computed from the line as stored, has no fraction of a minor unit.
WholeMinorUnits(s) ==
  \A k \in 1..Len(ItemsOfSale(s)) :
    LET row == ItemsOfSale(s)[k]
    IN  ItemTax(Catalog[row.product_id], row.is_vat_exempt, row.subtotal,
                row.discount_amount) % 100 = 0

\* C8 as stated: every persisted sale has
\* subtotal - discount_total + tax_total = total_amount (amounts taken as
\* whole minor units), for every cart, discount, VAT flag and points to
\* redeem.
C8_GrandTotal ==
  \A s \in 1..Len(sales) :
    WholeMinorUnits(s) =>
      sales[s].subtotal - sales[s].discount_amount + sales[s].tax_amount
        = sales[s].total_amount

\* C8: every persisted sale has
\* subtotal - discount_total + tax_total - points_value_redeemed =
\* total_amount (amounts taken as whole minor units), for every cart,
\* discount, VAT flag and points to redeem.
C8_GrandTotalLessPoints ==
  \A s \in 1..Len(sales) :
    WholeMinorUnits(s) =>
      sales[s].subtotal - sales[s].discount_amount + sales[s].tax_amount
        - sales[s].points_value_redeemed
        = sales[s].total_amount

\* A persisted sale of taxed lines with a sale discount whose customer
\* redeemed a point.
C8_Witness ==
  \E s \in 1..Len(sales) :
    /\ WholeMinorUnits(s)
    /\ sales[s].tax_amount > 0
    /\ sales[s].discount_amount > 0
    /\ sales[s].points_value_redeemed > 0

DiscountAmounts(rows) == [k \in 1..Len(rows) |-> rows[k].discount_amount]

\* C9: the discount_amount of a sale's sale_discounts rows sum to the sale's
\* discount_total, for every discount amount, VAT-exempt flag and reason.
C9_DiscountRowsSum ==
  \A s \in 1..Len(sales) :
    SumSeq(DiscountAmounts(SelectSeq(sale_discounts, LAMBDA row : row.sale_id = s)))
      = sales[s].discount_amount

\* The create-sale request of worker w checks a line of an existing product.
ChecksLine(w) ==
  /\ tx[w].op = "create" /\ tx[w].pc = "item"
  /\ tx'[w] # tx[w]
  /\ tx[w].data.items[tx[w].i].productId \in ProductIds

\* The request of worker w has been rejected for insufficient stock.
RejectedForStock(t) ==
  /\ t.pc = "done"
  /\ IsError(t.result)
  /\ Head(t.result.message) = "Insufficient stock for"

\* C10: a line is rejected for insufficient stock exactly when its product
\* tracks inventory, holds less stock than the quantity asked for, and does
\* not allow backorder.
C10_RejectedExactlyWhen ==
  [][\A w \in Workers :
       ChecksLine(w) =>
         LET item == tx[w].data.items[tx[w].i]
             p == item.productId
         IN  RejectedForStock(tx'[w])
               <=> /\ Catalog[p].track_inventory
                   /\ VisibleStock(tx[w], p) < item.quantity
                   /\ ~Catalog[p].allow_backorder]_vars

\* The create-sale request of worker w names an existing customer and
\* redeems points.
Redeems(w) ==
  /\ tx[w].op = "create"
  /\ tx[w].data.customerId \in CustomerIds
  /\ tx[w].data.pointsToRedeem > 0

\* The points check of a redeeming request: more points than the customer
\* holds are refused with BadRequest and nothing changes; otherwise the
\* request goes on.
PointsChecked(w) ==
  (tx[w].pc = "sale" /\ tx'[w] # tx[w]) =>
    IF tx[w].data.pointsToRedeem > customers[tx[w].data.customerId].loyalty_points
      THEN /\ Ended(tx'[w])
           /\ tx'[w].result.error = "BadRequest"
           /\ db' = db
      ELSE tx'[w].pc # "done"

\* The request of worker w commits its sale in this step.
Commits(w) == tx[w].pc = "customer" /\ tx'[w].pc = "get_by_id"

\* The committed sale's total_amount is the sale's total less one currency
\* unit (100 minor units) for each point redeemed.
TotalReduced(w) ==
  /\ Len(sales') = Len(sales) + 1
  /\ sales'[Len(sales')].total_amount =
       Numeric2(TotalAmount(tx[w].subtotal, tx[w].data.discountAmount, tx[w].totalTax))
         - 100 * tx[w].data.pointsToRedeem

\* C11 as stated: a create-sale that redeems more points than the customer
\* holds fails with BadRequest and changes nothing; otherwise the persisted
\* total_amount is reduced by exactly pointsToRedeem and the customer's
\* balance is reduced by exactly pointsToRedeem.
C11_RedeemReducesBalance ==
  [][\A w \in Workers :
       Redeems(w) =>
         /\ PointsChecked(w)
         /\ Commits(w) =>
              /\ TotalReduced(w)
              /\ customers'[tx[w].data.customerId].loyalty_points =
                   customers[tx[w].data.customerId].loyalty_points
                     - tx[w].data.pointsToRedeem]_vars

\* C11: a create-sale for an existing customer that redeems more points than
\* the customer holds fails with BadRequest and changes nothing; otherwise
\* the persisted total_amount is reduced by exactly pointsToRedeem and the
\* customer's balance changes by the points the sale earns less
\* pointsToRedeem.
C11_RedeemNetOfEarned ==
  [][\A w \in Workers :
       Redeems(w) =>
         /\ PointsChecked(w)
         /\ Commits(w) =>
              /\ TotalReduced(w)
              /\ customers'[tx[w].data.customerId].loyalty_points =
                   customers[tx[w].data.customerId].loyalty_points
                     + sales'[Len(sales')].points_earned
                     - tx[w].data.pointsToRedeem]_vars

\* A sale that redeemed points and earned points has been committed and
\* answered.
C11_Witness ==
  \E w \in Workers : \E s \in 1..Len(sales) :
    /\ tx[w].op = "create" /\ tx[w].pc = "done" /\ tx[w].result = OkSale(s)
    /\ sales[s].customer_id \in CustomerIds
    /\ sales[s].points_redeemed > 0
    /\ sales[s].points_earned > 0
    /\ sales[s].total_amount < sales[s].subtotal + sales[s].tax_amount

\* The controller passes the request to voidSale / refundSale: a reason is
\* given, the operator cannot authorize, a supervisor id and a PIN are given.
SupervisorPath(req) ==
  /\ req.reason # NULL
  /\ Users[req.userId].role \notin {"super_admin", "manager"}
  /\ ~(IF req.kind = "void" THEN Users[req.userId].can_authorize_void
                              ELSE Users[req.userId].can_authorize_refund)
  /\ req.supervisorId # NULL /\ req.supervisorPin # NULL

\* The named supervisor exists, has an active account, holds the capability
\* for the kind of request, and the PIN is the supervisor's.
SupervisorQualifies(req) ==
  /\ req.supervisorId \in UserIds
  /\ Users[req.supervisorId].status = "active"
  /\ IF req.kind = "void" THEN Users[req.supervisorId].can_authorize_void
                            ELSE Users[req.supervisorId].can_authorize_refund
  /\ Users[req.supervisorId].supervisor_pin # NULL
  /\ Users[req.supervisorId].supervisor_pin = req.supervisorPin

Unprivileged(kind, userId) ==
  /\ Users[userId].role \notin {"super_admin", "manager"}
  /\ ~(IF kind = "void" THEN Users[userId].can_authorize_void
                          ELSE Users[userId].can_authorize_refund)

\* The request carries a supervisor id and a PIN that pass the supervisor
\* check.
PassesSupervisor(req) ==
  /\ req.supervisorId # NULL /\ req.supervisorPin # NULL
  /\ VerifySupervisor(req.kind, req.supervisorId, req.supervisorPin) = Ok

C14_ReturnsCommittedSale ==
  [][\A w \in Workers :
       (tx[w].op = "create" /\ tx[w].pc = "get_by_id" /\ tx'[w].pc = "done")
         => /\ tx'[w].result.ok
            /\ tx'[w].returned.status = "completed"
            /\ tx'[w].returned =
                 SaleView(tx[w].saleId, tx[w].sale, ItemsOfSale(tx[w].saleId))]_vars

GovernmentApplied(discounts) ==
  SelectSeq(discounts.appliedDiscounts,
            LAMBDA d : d.type \in {"senior_citizen", "pwd"})

\* Worker w has returned from calculateDiscounts.
DiscountsReturned(w) == tx[w].op = "calculateDiscounts" /\ tx[w].pc = "done"

ApplicableReturned(w) == tx[w].op = "checkApplicable" /\ tx[w].pc = "done"

\* The promotion of the list with the given id.
PromotionOf(activePromotions, id) ==
  activePromotions[CHOOSE k \in 1..Len(activePromotions) : activePromotions[k].id = id]

\* C17: when checkApplicable has returned, a promotion of the active list
\* that matches the supplied coupon code was evaluated first, before every
\* promotion without code whatever the priorities, and the promotions
\* evaluated after it are promotions without code in descending priority.
C17_CouponFirst ==
  \A w \in Workers :
    ApplicableReturned(w) =>
      LET t == tx[w]
          n == Len(t.evaluated)
          promoAt(k) == PromotionOf(t.activePromotions, t.evaluated[k])
          matches ==
            {k \in 1..Len(t.activePromotions) :
               CouponMatches(t.params.couponCode, t.activePromotions[k])}
          auto == IF matches = {} THEN 1..n ELSE 2..n
      IN  /\ \A k \in matches : n >= 1 /\ t.evaluated[1] = t.activePromotions[k].id
          /\ \A k \in auto : promoAt(k).code = NULL
          /\ \A j, k \in auto : j < k => promoAt(j).priority >= promoAt(k).priority

\* The promotion is eligible for the request of call t: the loop takes it
\* and its conditions hold.
Eligible(t, promo) ==
  /\ Taken(t.params.couponCode, promo)
  /\ CheckPromotionConditions(promo, t.params.items, t.subtotal,
                              t.params.customerId, t.params.membershipTierId)

\* The place in the active list of the first eligible non-stackable
\* promotion, and the length of the list if there is none.
StopsAt(t) ==
  LET stops == {k \in 1..Len(t.activePromotions) :
                  /\ Eligible(t, t.activePromotions[k])
                  /\ ~t.activePromotions[k].isStackable}
  IN  IF stops = {} THEN Len(t.activePromotions)
      ELSE CHOOSE k \in stops : \A j \in stops : k <= j

\* C18: when checkApplicable has returned, the applicable list is the
\* eligible promotions of the active list up to and including the first
\* eligible non-stackable one, in the list's order; no promotion after that
\* one was evaluated; and discountAmount is the sum of the discounts of the
\* promotions of the applicable list.
C18_StopAtNonStackable ==
  \A w \in Workers :
    ApplicableReturned(w) =>
      LET t == tx[w]
          upTo == SubSeq(t.activePromotions, 1, StopsAt(t))
      IN  /\ t.applicable = SelectSeq(upTo, LAMBDA promo : Eligible(t, promo))
          /\ \A k \in 1..Len(t.evaluated) :
               \E j \in 1..StopsAt(t) : t.activePromotions[j].id = t.evaluated[k]
          /\ \A k \in 1..Len(t.applicable) :
               ~t.applicable[k].isStackable => k = Len(t.applicable)
          /\ t.totalDiscount =
               SumSeq([k \in 1..Len(t.applicable) |->
                         CalculateDiscount(t.applicable[k], t.params.items, t.subtotal)])

\* Two stackable promotions and then a non-stackable one were applied, 100.00
\* + 5.00 + 1.00 off, and an eligible promotion after them was left out.
C18_Witness ==
  \E w \in Workers :
    /\ ApplicableReturned(w)
    /\ Len(tx[w].applicable) = 3
    /\ tx[w].applicable[1].isStackable /\ tx[w].applicable[2].isStackable
    /\ ~tx[w].applicable[3].isStackable
    /\ tx[w].totalDiscount = 1060000
    /\ tx[w].i <= Len(tx[w].activePromotions)
    /\ Eligible(tx[w], tx[w].activePromotions[tx[w].i])

\* Worker w has returned from calculateDiscount.
DiscountReturned(w) == tx[w].op = "calculateDiscount" /\ tx[w].pc = "done"

LineTax(s, row) ==
  IF sales[s].is_vat_exempt \/ ~Catalog[row.product_id].is_taxable
    THEN 0
    ELSE (row.subtotal - row.discount_amount) * Catalog[row.product_id].tax_rate

\* Sale s is the cart of the examples: 2 units at 100.00 of a product taxed at
\* 12%, no line discount, no points redeemed.
ExampleCart(s) ==
  /\ Len(ItemsOfSale(s)) = 1
  /\ ItemsOfSale(s)[1].quantity = 2 /\ ItemsOfSale(s)[1].unit_price = 10000
  /\ Catalog[ItemsOfSale(s)[1].product_id].is_taxable
  /\ Catalog[ItemsOfSale(s)[1].product_id].tax_rate = 12
  /\ ItemsOfSale(s)[1].discount_amount = 0
  /\ sales[s].points_redeemed = 0

\* C20: every persisted sale line has as tax 0 when the sale is VAT-exempt or
\* the product is not taxable and otherwise (line subtotal - line discount) *
\* tax_rate / 100, and the sale has as tax the sum of these, each rounded to
\* the minor unit where it is stored; the example cart without discount has
\* subtotal 200.00, tax 24.00 and total 224.00, and with a VAT-exempt
\* discount of 40.00 it has tax 0 and total 160.00.
C20_TaxOfLines ==
  \A s \in 1..Len(sales) :
    LET rows == ItemsOfSale(s)
    IN  /\ \A k \in 1..Len(rows) : rows[k].tax_amount = Numeric2(LineTax(s, rows[k]))
        /\ sales[s].tax_amount
             = Numeric2(SumSeq([k \in 1..Len(rows) |-> LineTax(s, rows[k])]))
        /\ ExampleCart(s) /\ sales[s].discount_amount = 0 /\ ~sales[s].is_vat_exempt =>
             /\ sales[s].subtotal = 20000
             /\ sales[s].tax_amount = 2400
             /\ sales[s].total_amount = 22400
        /\ ExampleCart(s) /\ sales[s].discount_amount = 4000 /\ sales[s].is_vat_exempt =>
             /\ sales[s].subtotal = 20000
             /\ sales[s].tax_amount = 0
             /\ sales[s].total_amount = 16000

\* The example cart has been sold with the VAT-exempt discount of 40.00.
C20_Witness ==
  \E s \in 1..Len(sales) :
    /\ ExampleCart(s)
    /\ sales[s].discount_amount = 4000 /\ sales[s].is_vat_exempt
    /\ sales[s].total_amount = 16000

\* The ids of the promotions of a list.
PromotionIds(promotions) == {promotions[k].id : k \in 1..Len(promotions)}

\* C21: two evaluations of checkApplicable with the same cart, customer
\* context and coupon code against the same promotions at the same instant
\* return the same promotions and the same discount amount, also when
\* promotions share a priority.
C21_SameRequestSameAnswer ==
  \A v, w \in Workers :
    /\ ApplicableReturned(v) /\ ApplicableReturned(w)
    /\ tx[v].params = tx[w].params
    /\ PromotionIds(tx[v].activePromotions) = PromotionIds(tx[w].activePromotions)
    => /\ PromotionIds(tx[v].applicable) = PromotionIds(tx[w].applicable)
       /\ tx[v].totalDiscount = tx[w].totalDiscount

\* The stock_movements rows of a product, in creation order.
MovementsOf(p) == SelectSeq(stock_movements, LAMBDA row : row.product_id = p)

\* C22: for each product every stock_movements row has quantity_after =
\* quantity_before + quantity, each row's quantity_before is the previous
\* row's quantity_after, and the last row's quantity_after is the product's
\* current_stock, under every interleaving of the workers' requests.
C22_MovementsReplay ==
  \A p \in ProductIds :
    LET rows == MovementsOf(p)
    IN  /\ \A k \in 1..Len(rows) :
             rows[k].quantity_after = rows[k].quantity_before + rows[k].quantity
        /\ \A k \in 2..Len(rows) : rows[k].quantity_before = rows[k - 1].quantity_after
        /\ rows # <<>> => rows[Len(rows)].quantity_after = current_stock[p]

\* The sales of customer c, by id.
SalesOf(c) == {k \in 1..Len(sales) : sales[k].customer_id = c}

\* The sum of f over a finite set of sale ids.
RECURSIVE SumOver(_, _)
SumOver(ids, f) ==
  IF ids = {} THEN 0
  ELSE LET k == CHOOSE k \in ids : TRUE IN f[k] + SumOver(ids \ {k}, f)

\* C23: while no sale has been voided or refunded, every customer's
\* loyalty_points is at least 0 and is the seeded balance plus the points
\* earned less the points redeemed of the customer's committed sales, under
\* every interleaving of the workers' create-sale requests.
C23_RedeemWithinBalance ==
  \A c \in CustomerIds :
    AllCompleted =>
      /\ customers[c].loyalty_points >= 0
      /\ customers[c].loyalty_points =
           CustomerSeed[c].loyalty_points
             + SumOver(SalesOf(c), [k \in SalesOf(c) |-> sales[k].points_earned])
             - SumOver(SalesOf(c), [k \in SalesOf(c) |-> sales[k].points_redeemed])

\* The loyalty_points_history rows of customer c, in creation order.
HistoryOf(c) == SelectSeq(loyalty_points_history, LAMBDA row : row.customer_id = c)

\* The loyalty_points_history rows of a kind written for sale s.
HistoryRows(s, kind) ==
  SelectSeq(loyalty_points_history,
            LAMBDA row : row.reference_id = s /\ row.transaction_type = kind)

\* C24: create-sale writes one earn row for a customer's sale exactly when
\* the sale earned points and one redeem row exactly when it redeemed points,
\* and in a customer's history each row's balance_after is the balance before
\* the row (the seeded balance, or the previous row's balance_after) plus the
\* row's signed points.
C24_RunningBalance ==
  /\ \A s \in 1..Len(sales) :
       sales[s].customer_id \in CustomerIds =>
         /\ Len(HistoryRows(s, "earn")) = IF sales[s].points_earned > 0 THEN 1 ELSE 0
         /\ Len(HistoryRows(s, "redeem")) = IF sales[s].points_redeemed > 0 THEN 1 ELSE 0
  /\ \A c \in CustomerIds :
       LET rows == HistoryOf(c)
       IN  \A k \in 1..Len(rows) :
             rows[k].balance_after =
               (IF k = 1 THEN CustomerSeed[c].loyalty_points
                         ELSE rows[k - 1].balance_after) + rows[k].points

\* C25: a product that does not track inventory keeps its current_stock and
\* has no stock_movements row, whatever is sold, voided or refunded; every
\* 'return' row is for a product that tracks inventory and carries the
\* positive quantity of an item of the sale it names.
C25_RestoreTrackedOnly ==
  /\ \A p \in ProductIds :
       ~Catalog[p].track_inventory =>
         /\ current_stock[p] = Catalog[p].current_stock
         /\ MovementsOf(p) = <<>>
  /\ \A k \in 1..Len(stock_movements) :
       stock_movements[k].movement_type = "return" =>
         /\ Catalog[stock_movements[k].product_id].track_inventory
         /\ stock_movements[k].quantity > 0
         /\ \E j \in 1..Len(ItemsOfSale(stock_movements[k].reference_id)) :
              LET item == ItemsOfSale(stock_movements[k].reference_id)[j]
              IN  /\ item.product_id = stock_movements[k].product_id
                  /\ item.quantity = stock_movements[k].quantity

\* The lines of worker w's cart are whole minor units: no line's tax has a
\* fraction of a minor unit.
WholeLines(w) ==
  \A k \in 1..Len(tx[w].itemsData) : tx[w].itemsData[k].taxAmount % 100 = 0

\* C26: the sale a create-sale request commits has as discount_amount the
\* line discounts of its cart plus the sale-level discount of the request,
\* and its total_amount plus the points value redeemed is the sum of its
\* lines' total_price less the sale-level discount (amounts taken as whole
\* minor units).
C26_DiscountTotalOfLines ==
  [][\A w \in Workers :
       tx[w].op = "create" /\ Commits(w) /\ WholeLines(w) =>
         LET sale == sales'[Len(sales')]
             lines == tx[w].itemsData
         IN  /\ sale.discount_amount =
                  SumSeq([k \in 1..Len(lines) |-> lines[k].discountAmount])
                    + tx[w].data.discountAmount
             /\ sale.total_amount + sale.points_value_redeemed =
                  SumSeq([k \in 1..Len(lines) |-> Numeric2(lines[k].totalPrice)])
                    - tx[w].data.discountAmount]_vars

\* C27: once the sales of a customer have all been voided or refunded, the
\* customer's lifetime_spend and total_transactions are what they were
\* before the sales, whether or not a sale redeemed loyalty points.
C27_StatsRestored ==
  \A c \in CustomerIds :
    (SalesOf(c) # {} /\ CompletedSalesOf(c) = {}) =>
      /\ customers[c].lifetime_spend = CustomerSeed[c].lifetime_spend
      /\ customers[c].total_transactions = CustomerSeed[c].total_transactions

(***************************************************************************)
(* Loyalty points of a customer (customer.controller.ts,                   *)
(* customer.service.ts): addLoyaltyPoints and redeemLoyaltyPoints, run one *)
(* request at a time between the sales, voids and refunds of the customer. *)
(***************************************************************************)
\* Manual point requests taken while fewer than this many have been applied.
MaxLoyaltyOps == 2

\* The body of POST /customers/:id/loyalty-points[/redeem].  points 0 and
\* description NULL = absent; redeem carries no transactionType.
LoyaltyData(id, points, transactionType, description) ==
  [id |-> id, points |-> points, transactionType |-> transactionType,
   description |-> description]

\* The controller's validation of an add request.
AddPointsCheck(req) ==
  IF req.points = 0 \/ req.transactionType = NULL \/ req.description = NULL
    THEN Err("BadRequest", <<"Points, transaction type, and description are required">>)
  ELSE IF req.transactionType \notin {"earn", "bonus", "adjust"}
    THEN Err("BadRequest", <<"Invalid transaction type">>)
  ELSE Ok

\* The controller's validation of a redeem request.
RedeemPointsCheck(req) ==
  IF req.points = 0 \/ req.description = NULL
    THEN Err("BadRequest", <<"Points and description are required">>)
  ELSE Ok

\* The loyalty_points_history row of a manual request; reference_id 0 = NULL.
ManualHistoryRow(id, transactionType, points, newBalance) ==
  [customer_id |-> id, transaction_type |-> transactionType, points |-> points,
   balance_after |-> newBalance, reference_id |-> 0]

\* The manual point requests applied so far.
LoyaltyOpsDone ==
  Len(SelectSeq(loyalty_points_history, LAMBDA row : row.reference_id = 0))

BeginAddLoyaltyPoints(w, req) ==
  /\ LET t == [Idle EXCEPT !.op = "addLoyaltyPoints", !.req = req]
     IN tx' = [tx EXCEPT ![w] = IF AddPointsCheck(req) # Ok
                                  THEN Answered(t, AddPointsCheck(req))
                                  ELSE [t EXCEPT !.pc = "select"]]
  /\ UNCHANGED db

BeginRedeemLoyaltyPoints(w, req) ==
  /\ LET t == [Idle EXCEPT !.op = "redeemLoyaltyPoints", !.req = req]
     IN tx' = [tx EXCEPT ![w] = IF RedeemPointsCheck(req) # Ok
                                  THEN Answered(t, RedeemPointsCheck(req))
                                  ELSE [t EXCEPT !.pc = "select"]]
  /\ UNCHANGED db

\* addLoyaltyPoints: SELECT the balance, UPDATE it to balance + points,
\* INSERT the history row, COMMIT.
AddLoyaltyPoints(w) ==
  /\ tx[w].op = "addLoyaltyPoints" /\ tx[w].pc = "select"
  /\ LET req == tx[w].req
     IN IF req.id \notin CustomerIds
          THEN /\ tx' = [tx EXCEPT ![w] =
                           Answered(tx[w], Err("NotFound", <<"Customer not found">>))]
               /\ UNCHANGED db
        ELSE LET currentPoints == customers[req.id].loyalty_points
                 newBalance == currentPoints + req.points
             IN /\ customers' = [customers EXCEPT ![req.id].loyalty_points = newBalance]
                /\ loyalty_points_history' =
                     Append(loyalty_points_history,
                            ManualHistoryRow(req.id, req.transactionType, req.points,
                                             newBalance))
                /\ tx' = [tx EXCEPT ![w] = Answered(tx[w], Ok)]
                /\ UNCHANGED <<current_stock, sales, sale_items, sale_discounts,
                               stock_movements, current_usage, promotion_usage>>

\* redeemLoyaltyPoints: SELECT the balance, refuse more points than it
\* holds, UPDATE it to balance - points, INSERT the history row, COMMIT.
RedeemLoyaltyPoints(w) ==
  /\ tx[w].op = "redeemLoyaltyPoints" /\ tx[w].pc = "select"
  /\ LET req == tx[w].req
     IN IF req.id \notin CustomerIds
          THEN /\ tx' = [tx EXCEPT ![w] =
                           Answered(tx[w], Err("NotFound", <<"Customer not found">>))]
               /\ UNCHANGED db
        ELSE LET currentPoints == customers[req.id].loyalty_points
                 newBalance == currentPoints - req.points
             IN IF currentPoints < req.points
                  THEN /\ tx' = [tx EXCEPT ![w] =
                                   Answered(tx[w], Err("BadRequest",
                                                       <<"Insufficient loyalty points">>))]
                       /\ UNCHANGED db
                ELSE /\ customers' = [customers EXCEPT ![req.id].loyalty_points = newBalance]
                     /\ loyalty_points_history' =
                          Append(loyalty_points_history,
                                 ManualHistoryRow(req.id, "redeem", 0 - req.points,
                                                  newBalance))
                     /\ tx' = [tx EXCEPT ![w] = Answered(tx[w], Ok)]
                     /\ UNCHANGED <<current_stock, sales, sale_items, sale_discounts,
                                    stock_movements, current_usage, promotion_usage>>

\* Sales of p1 to customer c1 (each earns one point), redeeming no point or
\* one; voids and refunds of either sale by the manager.
LoyaltySaleData ==
  { SaleData(<<Line("p1", 1, 0)>>, "c1", 0, FALSE, NULL, pts) : pts \in {0, 1} }

LoyaltyVoidData ==
  { VoidData(kind, s, "s1", "r", NULL, NULL) : kind \in {"void", "refund"}, s \in 1..MaxSales }

\* Manual requests for c1 and for an unknown customer: one or two points, or
\* none; a valid or an unknown transaction type; with or without description.
AddPointsData ==
  { LoyaltyData(id, points, transactionType, description) :
      id \in {"c1", "cx"}, points \in 0..2, transactionType \in {"bonus", "gift"},
      description \in {NULL, "d"} }

RedeemPointsData ==
  { LoyaltyData(id, points, NULL, description) :
      id \in {"c1", "cx"}, points \in 0..2, description \in {NULL, "d"} }

LoyaltyNext ==
  \/ CanCreate(1, MaxSales) /\ \E data \in LoyaltySaleData : BeginCreate(1, data)
  \/ CreateItem(1)
  \/ CreateDeduct(1)
  \/ CreatePoints(1)
  \/ CreateSale(1)
  \/ CreateCommit(1)
  \/ tx[1].pc = "idle" /\ \E req \in LoyaltyVoidData : BeginVoid(1, req)
  \/ VoidUpdateSale(1)
  \/ VoidRestore(1)
  \/ VoidCommit(1)
  \/ GetById(1)
  \/ tx[1].pc = "idle" /\ LoyaltyOpsDone < MaxLoyaltyOps
       /\ \E req \in AddPointsData : BeginAddLoyaltyPoints(1, req)
  \/ tx[1].pc = "idle" /\ LoyaltyOpsDone < MaxLoyaltyOps
       /\ \E req \in RedeemPointsData : BeginRedeemLoyaltyPoints(1, req)
  \/ AddLoyaltyPoints(1)
  \/ RedeemLoyaltyPoints(1)
  \/ Return(1)

LoyaltySpec == Init /\ [][LoyaltyNext]_vars

\* C28: a customer's loyalty_points is never negative, after any sequence of
\* sales (with or without redemption), voids, refunds, and manual additions
\* and redemptions of points.
C28_PointsNeverNegative ==
  \A c \in CustomerIds : customers[c].loyalty_points >= 0

\* C29: every persisted sale has total_amount >= 0 and a discount_amount of
\* at most its subtotal, for every sale-level discount and points to redeem
\* a request carries.
C29_AmountsInRange ==
  \A s \in 1..Len(sales) :
    /\ sales[s].total_amount >= 0
    /\ sales[s].discount_amount <= sales[s].subtotal

(***************************************************************************)
(* Promotion usage (promotion.service.ts): workers that call               *)
(* checkApplicable and then recordUsage for a promotion it returned.       *)
(***************************************************************************)
\* checkApplicable calls are taken while fewer than this many usages have
\* been recorded.
MaxUsages == 2

\* The promotions table: an automatic promotion that may be used once, a
\* coupon that may be used twice and has been used once, a promotion at its
\* cap, and one without a cap.  usageLimit 0 = NULL.
UsagePromotions ==
  {[Promotion("once", NULL, "percentage", 10, TRUE, 5) EXCEPT !.usageLimit = 1],
   [Promotion("save10", "SAVE10", "percentage", 10, TRUE, 1) EXCEPT
      !.usageLimit = 2, !.currentUsage = 1],
   [Promotion("used", NULL, "percentage", 50, TRUE, 9) EXCEPT
      !.usageLimit = 1, !.currentUsage = 1],
   Promotion("auto10", NULL, "percentage", 10, TRUE, 5)}

UsageParams ==
  [items : {<<CartItem("p1", 2)>>}, customerId : {NULL, "c1"},
   membershipTierId : {NULL}, couponCode : {NULL, "save10"}]

UsageInit ==
  /\ current_stock = [p \in ProductIds |-> Catalog[p].current_stock]
  /\ customers = CustomerSeed
  /\ sales = <<>>
  /\ sale_items = <<>>
  /\ sale_discounts = <<>>
  /\ stock_movements = <<>>
  /\ loyalty_points_history = <<>>
  /\ current_usage = [id \in {promo.id : promo \in UsagePromotions} |->
                        (CHOOSE promo \in UsagePromotions : promo.id = id).currentUsage]
  /\ promotion_usage = <<>>
  /\ tx = [w \in Workers |-> Idle]

\* SELECT * FROM promotions as a statement sees it: the rows with the
\* committed current_usage.
PromotionsRows ==
  {[promo EXCEPT !.currentUsage = current_usage[promo.id]] : promo \in UsagePromotions}

\* checkApplicable up to its loop: the SELECT of the active promotions.
BeginCheckApplicable(w, params) ==
  /\ tx[w].pc = "idle"
  /\ \E activePromotions \in OrderByPriorityDesc(ActivePromotions(PromotionsRows)) :
       tx' = [tx EXCEPT ![w] = ApplicableCall(params, activePromotions)]
  /\ UNCHANGED db

\* A worker in a call of recordUsage.  saleId NULL = no sale.
UsageCall(promotionId, customerId, saleId, discountAmount) ==
  [op |-> "recordUsage", pc |-> "insert", promotionId |-> promotionId,
   customerId |-> customerId, saleId |-> saleId, discountAmount |-> discountAmount]

\* The caller of checkApplicable records the usage of the k-th promotion it
\* was given.
BeginRecordUsage(w, k) ==
  /\ tx[w].op = "checkApplicable" /\ tx[w].pc = "done"
  /\ k \in 1..Len(tx[w].applicable)
  /\ LET t == tx[w]
         promo == t.applicable[k]
     IN tx' = [tx EXCEPT ![w] =
                 UsageCall(promo.id, t.params.customerId, NULL,
                           CalculateDiscount(promo, t.params.items, t.subtotal))]
  /\ UNCHANGED db

\* recordUsage: INSERT INTO promotion_usage, UPDATE promotions SET
\* current_usage = current_usage + 1, COMMIT.  The UPDATE is relative and
\* holds the row until COMMIT, so concurrent calls take effect one after
\* the other.
RecordUsage(w) ==
  /\ tx[w].op = "recordUsage" /\ tx[w].pc = "insert"
  /\ promotion_usage' =
       Append(promotion_usage,
              [promotion_id |-> tx[w].promotionId, customer_id |-> tx[w].customerId,
               sale_id |-> tx[w].saleId, discount_amount |-> tx[w].discountAmount])
  /\ current_usage' = [current_usage EXCEPT ![tx[w].promotionId] = @ + 1]
  /\ tx' = [tx EXCEPT ![w].pc = "done"]
  /\ UNCHANGED <<current_stock, customers, sales, sale_items, sale_discounts,
                 stock_movements, loyalty_points_history>>

UsageNext ==
  \E w \in Workers :
    \/ Len(promotion_usage) < MaxUsages
         /\ \E params \in UsageParams : BeginCheckApplicable(w, params)
    \/ CheckPromotion(w)
    \/ ReturnApplicable(w)
    \/ \E k \in 1..MaxPromotions : BeginRecordUsage(w, k)
    \/ RecordUsage(w)
    \/ Return(w)

UsageSpec == UsageInit /\ [][UsageNext]_vars

\* C30: the current_usage of a promotion with a usage_limit never exceeds
\* the limit, under every interleaving of the workers' checkApplicable and
\* recordUsage calls.
C30_UsageWithinLimit ==
  \A promo \in UsagePromotions :
    promo.usageLimit # 0 => current_usage[promo.id] <= promo.usageLimit

====
